---- MODULE Spec2Model ----
(***************************************************************************)
(* Tool sandbox and orchestration loop of the Splunk query agent.          *)
(*                                                                         *)
(* Strings of the program are sequences of one-character strings, so that  *)
(* path.resolve, String.includes, String.startsWith, String.trim and the   *)
(* regular expressions of the guards are computed, not assumed.            *)
(***************************************************************************)
EXTENDS Integers, Sequences, FiniteSets, TLC

\* ------------------------------------------------------------------------
\* Bounds of the model
\* ------------------------------------------------------------------------
MaxSegs == 3
MaxCmdAtoms == 3
MaxTools == 2
MaxCtx == 2
MaxRespLen == 6
MaxLookups == 2
MaxValidations == 3
MaxLines == 2

\* ------------------------------------------------------------------------
\* JavaScript strings
\* ------------------------------------------------------------------------

\* sub occurs in s at position i
At(s, i, sub) ==
  /\ i >= 1
  /\ i + Len(sub) - 1 <= Len(s)
  /\ SubSeq(s, i, i + Len(sub) - 1) = sub

Includes(s, sub) == \E i \in 1..(Len(s) + 1) : At(s, i, sub)

StartsWith(s, pre) == At(s, 1, pre)

IsSpace(c) == c \in {" ", "\t", "\n"}

RECURSIVE TrimStart(_)
TrimStart(s) ==
  IF s # <<>> /\ IsSpace(Head(s)) THEN TrimStart(Tail(s)) ELSE s

RECURSIVE TrimEnd(_)
TrimEnd(s) ==
  IF s # <<>> /\ IsSpace(s[Len(s)]) THEN TrimEnd(SubSeq(s, 1, Len(s) - 1)) ELSE s

Trim(s) == TrimEnd(TrimStart(s))

\* F of the value of x: x is evaluated once, before F is
Of(F(_), x) == CHOOSE r \in {F(value) : value \in {x}} : TRUE

\* s.split(sep) for a one-character separator
RECURSIVE Split(_, _)
Split(str, sep) ==
  Of(LAMBDA s :
       IF \A i \in 1..Len(s) : s[i] # sep
       THEN <<s>>
       ELSE LET i == CHOOSE k \in 1..Len(s) :
                       s[k] = sep /\ \A j \in 1..(k - 1) : s[j] # sep
            IN <<SubSeq(s, 1, i - 1)>> \o Split(SubSeq(s, i + 1, Len(s)), sep),
     str)

RECURSIVE Concat(_)
Concat(ss) == IF ss = <<>> THEN <<>> ELSE Head(ss) \o Concat(Tail(ss))

\* ------------------------------------------------------------------------
\* path.resolve, path.extname (POSIX)
\* ------------------------------------------------------------------------
cwd == <<"/", "w">>
sandboxDirectory == <<"/", "s">>

\* normalizeString: drop empty and "." segments, ".." removes the segment
\* before it (and is dropped at the root)
RECURSIVE NormalizeSegs(_, _)
NormalizeSegs(segs, acc) ==
  IF segs = <<>> THEN acc
  ELSE LET h == Head(segs) IN
       IF h = <<>> \/ h = <<".">> THEN NormalizeSegs(Tail(segs), acc)
       ELSE IF h = <<".", ".">>
            THEN NormalizeSegs(Tail(segs),
                               IF acc = <<>> THEN acc
                               ELSE SubSeq(acc, 1, Len(acc) - 1))
            ELSE NormalizeSegs(Tail(segs), Append(acc, h))

RECURSIVE JoinAbs(_)
JoinAbs(segs) ==
  IF segs = <<>> THEN <<>> ELSE <<"/">> \o Head(segs) \o JoinAbs(Tail(segs))

resolve(p) ==
  LET full == IF p # <<>> /\ Head(p) = "/" THEN p ELSE cwd \o <<"/">> \o p
      segs == NormalizeSegs(Split(full, "/"), <<>>)
  IN IF segs = <<>> THEN <<"/">> ELSE JoinAbs(segs)

basename(p) == LET parts == Split(p, "/") IN parts[Len(parts)]

extname(p) ==
  LET b == basename(p)
      dots == {i \in 1..Len(b) : b[i] = "."}
  IN IF dots = {} THEN <<>>
     ELSE LET d == CHOOSE i \in dots : \A j \in dots : j <= i
          IN IF d = 1 \/ b = <<".", ".">> THEN <<>>
             ELSE SubSeq(b, d, Len(b))

\* ------------------------------------------------------------------------
\* Configuration (src/tools/index.ts, the config module) and the filesystem
\* ------------------------------------------------------------------------
maxFileSize == 2
allowedExtensions == {<<".", "t">>}

\* The filesystem the process runs on: absolute path |-> what stat reports.
\* /wx is a sibling of the working directory whose name starts with "/w".
\* readable: "text" (utf-8 read works), "binary" (only the raw read works),
\* "none" (both reads fail)
Dir == [kind |-> "dir", size |-> 0, readable |-> "none"]
File(n, r) == [kind |-> "file", size |-> n, readable |-> r]
FS ==
  ( <<"/">> :> Dir ) @@
  ( <<"/", "w">> :> Dir ) @@
  ( <<"/", "w", "/", "a", ".", "t">> :> File(1, "text") ) @@
  ( <<"/", "w", "/", "b", ".", "t">> :> File(3, "text") ) @@
  ( <<"/", "w", "/", "c", ".", "x">> :> File(1, "text") ) @@
  ( <<"/", "w", "/", "a", "~">> :> File(1, "text") ) @@
  ( <<"/", "w", "/", "d">> :> Dir ) @@
  ( <<"/", "w", "/", "d", "/", "a">> :> File(1, "binary") ) @@
  ( <<"/", "w", "x">> :> Dir ) @@
  ( <<"/", "w", "x", "/", "a", ".", "t">> :> File(1, "text") ) @@
  ( <<"/", "s">> :> Dir ) @@
  ( <<"/", "s", "/", "a", ".", "t">> :> File(2, "text") ) @@
  ( <<"/", "s", "/", "b", ".", "t">> :> File(1, "none") ) @@
  ( <<"/", "s", "/", "d">> :> Dir ) @@
  ( <<"/", "s", "/", "d", "/", "d">> :> Dir ) @@
  ( <<"/", "s", "/", "d", "/", "d", "/", "d">> :> Dir ) @@
  ( <<"/", "s", "/", "d", "/", "d", "/", "d", "/", "d">> :> Dir ) @@
  ( <<"/", "s", "/", "d", "/", "d", "/", "d", "/", "d", "/", "a">>
      :> File(1, "text") ) @@
  ( <<"/", "e">> :> Dir ) @@
  ( <<"/", "e", "/", "a", ".", "t">> :> File(1, "text") ) @@
  ( <<"/", "e", "/", "c", ".", "x">> :> File(3, "text") )

Exists(abs) == abs \in DOMAIN FS

\* ------------------------------------------------------------------------
\* JavaScript values that reach the tools (JSON-decoded model output)
\* ------------------------------------------------------------------------
Undefined == [t |-> "undefined"]
Null == [t |-> "null"]
Num(n) == [t |-> "number", v |-> n]
Str(s) == [t |-> "string", v |-> s]
Obj(f) == [t |-> "object", v |-> f]
IsString(x) == x.t = "string"

\* obj[k]: a TypeError on undefined and null, undefined for a missing key
CanRead(obj) == obj.t \notin {"undefined", "null"}
Prop(obj, k) ==
  IF obj.t = "object" /\ k \in DOMAIN obj.v THEN obj.v[k] ELSE Undefined

\* ToolResult
Success(out) == [success |-> TRUE, output |-> out]
\* a failure that hands back text as its output
Failure_WithOutput(msg) ==
  [success |-> FALSE, output |-> <<msg>>, error |-> msg]
Failure(msg) == [success |-> FALSE, output |-> <<>>, error |-> msg]
\* what execute hands back: a ToolResult, or an exception that escaped it,
\* together with the system calls it made
Returned(res, calls) == [raised |-> FALSE, result |-> res, calls |-> calls]
Raised(msg, calls) == [raised |-> TRUE, error |-> msg, calls |-> calls]
Valid == [valid |-> TRUE]
Invalid(msg) == [valid |-> FALSE, error |-> msg]

\* the sandbox test shared by the three path guards:
\*   allowedPaths.some(p => absolutePath.startsWith(path.resolve(p)))
allowedPaths == <<cwd, sandboxDirectory>>
isAllowed(absolutePath) ==
  \E i \in 1..Len(allowedPaths) :
     StartsWith(absolutePath, resolve(allowedPaths[i]))

hasTraversal(absolutePath) ==
  Includes(absolutePath, <<".", ".">>) \/ Includes(absolutePath, <<"~">>)

Stat(abs) == [op |-> "stat", path |-> abs]
ReadFileCall(abs) == [op |-> "readFile", path |-> abs]
Access(abs) == [op |-> "access", path |-> abs]
Readdir(abs) == [op |-> "readdir", path |-> abs]

formatFileSize(bytes) ==
  IF bytes = 0 THEN <<"0 B">> ELSE <<ToString(bytes), " B">>

\* ------------------------------------------------------------------------
\* ReadFileTool
\* ------------------------------------------------------------------------
\* ReadFile_validateFile with the size test moved behind the other tests
ReadFile_validateFile_SizeLast(filePath) ==
  IF ~IsString(filePath)
  THEN Invalid("File does not exist or is not accessible") @@ [calls |-> <<>>]
  ELSE
  LET absolutePath == resolve(filePath.v)
      ext == extname(absolutePath)
  IN  [calls |-> <<Stat(absolutePath)>>] @@
      IF ~Exists(absolutePath)
      THEN Invalid("File does not exist or is not accessible")
      ELSE IF FS[absolutePath].kind # "file"
      THEN Invalid("Path is not a file")
      ELSE IF hasTraversal(absolutePath)
      THEN Invalid("Path traversal not allowed")
      ELSE IF ext \notin allowedExtensions /\ ext # <<>>
      THEN Invalid("File extension is not allowed")
      ELSE IF ~isAllowed(absolutePath)
      THEN Invalid("Access to this file location is not allowed")
      ELSE IF FS[absolutePath].size > maxFileSize
      THEN Invalid("File size exceeds maximum allowed size")
      ELSE Valid

\* ReadFile_validateFile without the test of the extension
ReadFile_validateFile_AnyExtension(filePath) ==
  IF ~IsString(filePath)
  THEN Invalid("File does not exist or is not accessible") @@ [calls |-> <<>>]
  ELSE
  LET absolutePath == resolve(filePath.v)
      calls == <<Stat(absolutePath)>>
  IN  [calls |-> calls] @@
      IF ~Exists(absolutePath)
      THEN Invalid("File does not exist or is not accessible")
      ELSE IF FS[absolutePath].kind # "file"
      THEN Invalid("Path is not a file")
      ELSE IF FS[absolutePath].size > maxFileSize
      THEN Invalid("File size exceeds maximum allowed size")
      ELSE IF hasTraversal(absolutePath)
      THEN Invalid("Path traversal not allowed")
      ELSE IF ~isAllowed(absolutePath)
      THEN Invalid("Access to this file location is not allowed")
      ELSE Valid

ReadFile_validateFile(filePath) ==
  IF ~IsString(filePath)
  THEN Invalid("File does not exist or is not accessible") @@ [calls |-> <<>>]
  ELSE
  LET absolutePath == resolve(filePath.v)
      calls == <<Stat(absolutePath)>>
      ext == extname(absolutePath)
  IN  [calls |-> calls] @@
      IF ~Exists(absolutePath)
      THEN Invalid("File does not exist or is not accessible")
      ELSE IF FS[absolutePath].kind # "file"
      THEN Invalid("Path is not a file")
      ELSE IF FS[absolutePath].size > maxFileSize
      THEN Invalid("File size exceeds maximum allowed size")
      ELSE IF hasTraversal(absolutePath)
      THEN Invalid("Path traversal not allowed")
      ELSE IF ext \notin allowedExtensions /\ ext # <<>>
      THEN Invalid("File extension is not allowed")
      ELSE IF ~isAllowed(absolutePath)
      THEN Invalid("Access to this file location is not allowed")
      ELSE Valid

\* readFileContent: [ok, content | error, calls]
ReadFile_readFileContent(filePath) ==
  LET r == FS[filePath].readable IN
  IF r = "text"
  THEN [ok |-> TRUE,
        content |-> <<"File: ">> \o filePath \o <<"\nSize: ">>
                    \o formatFileSize(FS[filePath].size)
                    \o <<"\nExtension: ">>
                    \o (IF extname(filePath) = <<>> THEN <<"none">>
                        ELSE extname(filePath))
                    \o <<"\n\n--- File Content ---\n", "<content>">>,
        calls |-> <<ReadFileCall(filePath), Stat(filePath)>>]
  ELSE IF r = "binary"
  THEN [ok |-> TRUE,
        content |-> <<"File: ">> \o filePath
                    \o <<"\nNote: Binary file detected", "<hex>">>,
        calls |-> <<ReadFileCall(filePath), ReadFileCall(filePath)>>]
  ELSE [ok |-> FALSE, error |-> "Failed to read file",
        calls |-> <<ReadFileCall(filePath), ReadFileCall(filePath)>>]

ReadFile_execute(parameters) ==
  IF ~CanRead(parameters)
  THEN Returned(Failure("TypeError"), <<>>)
  ELSE
  LET filepath == Prop(parameters, "filepath")
      validationResult == ReadFile_validateFile(filepath)
  IN  IF ~validationResult.valid
      THEN Returned(Failure(validationResult.error), validationResult.calls)
      ELSE LET rd == ReadFile_readFileContent(resolve(filepath.v))
               calls == validationResult.calls \o rd.calls
           IN IF rd.ok THEN Returned(Success(rd.content), calls)
              ELSE Returned(Failure(rd.error), calls)

\* ------------------------------------------------------------------------
\* TerminalCommandTool
\* ------------------------------------------------------------------------
allowedCommands ==
  { <<"l", "s">>, <<"d", "i", "r">>, <<"p", "w", "d">>,
    <<"w", "h", "o", "a", "m", "i">>, <<"d", "a", "t", "e">>,
    <<"u", "p", "t", "i", "m", "e">>,
    <<"f", "i", "n", "d">>, <<"l", "o", "c", "a", "t", "e">>,
    <<"w", "h", "i", "c", "h">>, <<"t", "y", "p", "e">>,
    <<"h", "e", "a", "d">>, <<"t", "a", "i", "l">>, <<"c", "a", "t">>,
    <<"w", "c">>, <<"s", "o", "r", "t">>, <<"u", "n", "i", "q">>,
    <<"p", "s">>, <<"t", "o", "p">>, <<"d", "f">>, <<"d", "u">>,
    <<"f", "r", "e", "e">>,
    <<"n", "o", "d", "e">>, <<"n", "p", "m">>,
    <<"p", "y", "t", "h", "o", "n">>, <<"p", "y", "t", "h", "o", "n", "3">>,
    <<"j", "a", "v", "a">>,
    <<"g", "i", "t">> }

\* the regular expression  before \s+ after  and  before \s* after
RECURSIVE AllSpace(_)
AllSpace(s) == s = <<>> \/ (IsSpace(Head(s)) /\ AllSpace(Tail(s)))

MatchGap(s, before, after, minGap) ==
  \E i \in 1..Len(s) : \E j \in i..Len(s) :
     /\ At(s, i, before)
     /\ j >= i + Len(before) + minGap
     /\ AllSpace(SubSeq(s, i + Len(before), j - 1))
     /\ At(s, j, after)

\* before .* after : "." matches every character but a line terminator
MatchSameLine(s, before, after) ==
  \E i \in 1..Len(s) : \E j \in i..Len(s) :
     /\ At(s, i, before)
     /\ j >= i + Len(before)
     /\ \A k \in (i + Len(before))..(j - 1) : s[k] \notin {"\n", "\r"}
     /\ At(s, j, after)

\* the backquote character (written as a name: it cannot stand in a string)
Backquote == "BQ"
ShellMeta == {";", "&", "|", Backquote, "$", "(", ")", "{", "}", "[", "]"}

dangerousPatterns(c) ==
  << \E i \in 1..Len(c) : c[i] \in ShellMeta,
     Includes(c, <<".", ".">>),
     \/ Includes(c, <<"/", "d", "e", "v", "/">>)
     \/ Includes(c, <<"/", "p", "r", "o", "c", "/">>)
     \/ Includes(c, <<"/", "s", "y", "s", "/">>),
     MatchGap(c, <<"r", "m">>, <<"-", "r", "f">>, 1),
     Includes(c, <<"s", "u", "d", "o">>) \/ Includes(c, <<"s", "u">>),
     \/ Includes(c, <<"c", "h", "m", "o", "d">>)
     \/ Includes(c, <<"c", "h", "o", "w", "n">>),
     \/ Includes(c, <<"w", "g", "e", "t">>)
     \/ MatchSameLine(c, <<"c", "u", "r", "l">>, <<"-", "o">>),
     \/ MatchGap(c, <<">">>, <<"/">>, 0)
     \/ Includes(c, <<">", ">">>) >>

\* Terminal_validateCommand without the test of the dangerous patterns
Terminal_validateCommand_NoDeny(command) ==
  LET trimmedCommand == Trim(command)
      baseCommand == Split(trimmedCommand, " ")[1]
  IN  IF trimmedCommand = <<>>
      THEN Invalid("Command cannot be empty")
      ELSE IF baseCommand = <<>> \/ baseCommand \notin allowedCommands
      THEN Invalid("Command is not in the allowed list")
      ELSE Valid

\* Terminal_validateCommand without the test of the allowed commands
Terminal_validateCommand_NoAllow(command) ==
  LET trimmedCommand == Trim(command)
      pats == dangerousPatterns(trimmedCommand)
  IN  IF trimmedCommand = <<>>
      THEN Invalid("Command cannot be empty")
      ELSE IF \E i \in 1..Len(pats) : pats[i]
      THEN Invalid("Command contains dangerous patterns")
      ELSE Valid

Terminal_validateCommand(command) ==
  LET trimmedCommand == Trim(command)
      pats == dangerousPatterns(trimmedCommand)
      baseCommand == Split(trimmedCommand, " ")[1]
  IN  IF trimmedCommand = <<>>
      THEN Invalid("Command cannot be empty")
      ELSE IF \E i \in 1..Len(pats) : pats[i]
      THEN Invalid("Command contains dangerous patterns")
      ELSE IF baseCommand = <<>> \/ baseCommand \notin allowedCommands
      THEN Invalid("Command is not in the allowed list")
      ELSE Valid

Terminal_sanitizeCommand(command) == Trim(command)

\* process.env of the server
ProcessEnv == {"PATH", "ANTHROPIC_API_KEY", "API_KEY"}

Exec(cmd, dir, env) == [op |-> "exec", cmd |-> cmd, cwd |-> dir, env |-> env]

\* what the child process does: exit code, stdout, stderr
ProcOk == [code |-> 0, stdout |-> <<"<stdout>">>, stderr |-> <<>>]
ProcOkStderr == [code |-> 0, stdout |-> <<"<stdout>">>, stderr |-> <<"<stderr>">>]
ProcExit1 == [code |-> 1, stdout |-> <<>>, stderr |-> <<>>]
ProcExit2 == [code |-> 2, stdout |-> <<>>, stderr |-> <<"<stderr>">>]
ProcOutcomes == {ProcOk, ProcOkStderr, ProcExit1, ProcExit2}

\* the outcomes that make a difference to a tool (one for a tool that
\* spawns nothing)
ProcsFor(t) ==
  CASE t = "terminal_command" -> {ProcOk, ProcOkStderr, ProcExit1}
    [] t = "file_system_grep" -> {ProcOk, ProcExit1, ProcExit2}
    [] OTHER -> {ProcOk}

\* env: {...process.env, PATH: process.env.PATH || ''}: the names of the
\* variables handed to the child process
Terminal_env == ProcessEnv \cup {"PATH"}

\* Terminal_execute reading parameters.command before the try block
Terminal_execute_Unguarded(parameters, proc) ==
  IF ~CanRead(parameters) \/ ~IsString(Prop(parameters, "command"))
  THEN Raised("TypeError", <<>>)
  ELSE
  LET command == Prop(parameters, "command").v
      validationResult == Terminal_validateCommand(command)
      calls == <<Exec(Terminal_sanitizeCommand(command), cwd, ProcessEnv)>>
  IN  IF ~validationResult.valid
      THEN Returned(Failure(validationResult.error), <<>>)
      ELSE IF proc.code # 0
      THEN Returned(Failure("Command failed"), calls)
      ELSE Returned(Success(proc.stdout \o
                            (IF proc.stderr # <<>>
                             THEN <<"\nStderr: ">> \o proc.stderr
                             ELSE <<>>)), calls)

\* Terminal_execute not looking at validationResult.valid
Terminal_execute_IgnoresValidation(parameters, proc) ==
  IF ~CanRead(parameters) \/ ~IsString(Prop(parameters, "command"))
  THEN Returned(Failure("TypeError"), <<>>)
  ELSE
  LET command == Prop(parameters, "command").v
      calls == <<Exec(Terminal_sanitizeCommand(command), cwd, ProcessEnv)>>
  IN  IF proc.code # 0
      THEN Returned(Failure("Command failed"), calls)
      ELSE Returned(Success(proc.stdout \o
                            (IF proc.stderr # <<>>
                             THEN <<"\nStderr: ">> \o proc.stderr
                             ELSE <<>>)), calls)

Terminal_execute(parameters, proc) ==
  IF ~CanRead(parameters) \/ ~IsString(Prop(parameters, "command"))
  THEN Returned(Failure("TypeError"), <<>>)
  ELSE
  LET command == Prop(parameters, "command").v
      validationResult == Terminal_validateCommand(command)
      sanitizedCommand == Terminal_sanitizeCommand(command)
      calls == <<Exec(sanitizedCommand, cwd, Terminal_env)>>
  IN  IF ~validationResult.valid
      THEN Returned(Failure(validationResult.error), <<>>)
      ELSE IF proc.code # 0
      THEN Returned(Failure("Command failed"), calls)
      ELSE Returned(Success(proc.stdout \o
                            (IF proc.stderr # <<>>
                             THEN <<"\nStderr: ">> \o proc.stderr
                             ELSE <<>>)), calls)

\* ------------------------------------------------------------------------
\* FileSystemGrepTool
\* ------------------------------------------------------------------------
Grep_validatePath(inputPath) ==
  IF ~IsString(inputPath)
  THEN Invalid("Path does not exist or is not accessible") @@ [calls |-> <<>>]
  ELSE
  LET absolutePath == resolve(inputPath.v)
  IN  [calls |-> <<Access(absolutePath)>>] @@
      IF ~Exists(absolutePath)
      THEN Invalid("Path does not exist or is not accessible")
      ELSE IF hasTraversal(absolutePath)
      THEN Invalid("Path traversal not allowed")
      ELSE IF ~isAllowed(absolutePath)
      THEN Invalid("Access to this path is not allowed")
      ELSE Valid

\* replace(/[`$;|&<>()]/g, '\\$&')
GrepEscaped == {Backquote, "$", ";", "|", "&", "<", ">", "(", ")"}
RECURSIVE Grep_sanitize(_)
Grep_sanitize(str) ==
  IF str = <<>> THEN <<>>
  ELSE (IF Head(str) \in GrepEscaped THEN <<"\\", Head(str)>> ELSE <<Head(str)>>)
       \o Grep_sanitize(Tail(str))

Grep_sanitizePattern(pattern) == Grep_sanitize(pattern)
Grep_sanitizePath(inputPath) == Grep_sanitize(inputPath)

\* allowedExtensions.map(ext => ext.replace('.', '')).join(',')
RECURSIVE JoinExts(_)
JoinExts(exts) ==
  IF exts = {} THEN <<>>
  ELSE LET e == CHOOSE x \in exts : TRUE
           rest == JoinExts(exts \ {e})
       IN Tail(e) \o (IF rest = <<>> THEN <<>> ELSE <<",">> \o rest)

Grep_command(sanitizedPattern, sanitizedPath) ==
  <<"grep -r -n -H --include=", "\"", "*.{">> \o JoinExts(allowedExtensions)
  \o <<"}", "\"", " ", "\"">> \o sanitizedPattern
  \o <<"\"", " ", "\"">> \o sanitizedPath \o <<"\"">>

Grep_execute(parameters, proc) ==
  IF ~CanRead(parameters)
  THEN Returned(Failure("TypeError"), <<>>)
  ELSE
  LET validationResult == Grep_validatePath(Prop(parameters, "path"))
      pattern == Prop(parameters, "pattern")
  IN  IF ~validationResult.valid
      THEN Returned(Failure(validationResult.error), validationResult.calls)
      ELSE IF ~IsString(pattern)
      THEN Returned(Failure("TypeError"), validationResult.calls)
      ELSE
      LET grepCommand == Grep_command(Grep_sanitizePattern(pattern.v),
                                      Grep_sanitizePath(Prop(parameters, "path").v))
          calls == validationResult.calls \o
                   <<Exec(grepCommand, cwd, ProcessEnv)>>
      IN  IF proc.code # 0
          THEN Returned(Failure("Command failed"), calls)
          ELSE Returned(Success(IF proc.stdout # <<>> THEN proc.stdout
                                ELSE <<"No matches found">>), calls)

\* ------------------------------------------------------------------------
\* FolderIndexingTool
\* ------------------------------------------------------------------------
Folder_validatePath(inputPath) ==
  IF ~IsString(inputPath)
  THEN Invalid("Directory does not exist or is not accessible")
       @@ [calls |-> <<>>]
  ELSE
  LET absolutePath == resolve(inputPath.v)
  IN  [calls |-> <<Stat(absolutePath)>>] @@
      IF ~Exists(absolutePath)
      THEN Invalid("Directory does not exist or is not accessible")
      ELSE IF FS[absolutePath].kind # "dir"
      THEN Invalid("Path is not a directory")
      ELSE IF hasTraversal(absolutePath)
      THEN Invalid("Path traversal not allowed")
      ELSE IF ~isAllowed(absolutePath)
      THEN Invalid("Access to this directory is not allowed")
      ELSE Valid

maxDepth == 3

dirname(p) ==
  LET parts == Split(p, "/")
      up == JoinAbs(SubSeq(parts, 2, Len(parts) - 1))
  IN IF up = <<>> THEN <<"/">> ELSE up

\* path.join(dirPath, name)
join(dirPath, name) ==
  IF dirPath = <<"/">> THEN <<"/">> \o name ELSE dirPath \o <<"/">> \o name

\* fs.readdir: the names in a directory
Entries(dirPath) ==
  {basename(p) : p \in {q \in DOMAIN FS : q # <<"/">> /\ dirname(q) = dirPath}}

\* a.name.localeCompare(b.name) < 0, on the characters of the model
Rank(c) ==
  CASE c = "." -> 1 [] c = "~" -> 2
    [] c = "a" -> 3 [] c = "b" -> 4 [] c = "c" -> 5 [] c = "d" -> 6
    [] c = "e" -> 7 [] c = "s" -> 8 [] c = "t" -> 9 [] c = "w" -> 10
    [] c = "x" -> 11 [] OTHER -> 12

RECURSIVE NameLess(_, _)
NameLess(a, b) ==
  IF b = <<>> THEN FALSE
  ELSE IF a = <<>> THEN TRUE
  ELSE IF Head(a) # Head(b) THEN Rank(Head(a)) < Rank(Head(b))
  ELSE NameLess(Tail(a), Tail(b))

\* the comparator of entries.sort: directories first, then by name
EntryBefore(dirPath, a, b) ==
  LET da == FS[join(dirPath, a)].kind = "dir"
      db == FS[join(dirPath, b)].kind = "dir"
  IN IF da # db THEN da ELSE NameLess(a, b)

RECURSIVE SortEntries(_, _)
SortEntries(dirPath, names) ==
  IF names = {} THEN <<>>
  ELSE LET m == CHOOSE a \in names :
                  \A b \in names \ {a} : EntryBefore(dirPath, a, b)
       IN <<m>> \o SortEntries(dirPath, names \ {m})

RECURSIVE Indent(_)
Indent(depth) == IF depth = 0 THEN <<>> ELSE <<"  ">> \o Indent(depth - 1)

\* a descent that goes into every subdirectory
descends_Always(depth) == TRUE

\* if (depth < maxDepth): the subdirectory is listed too
descends(depth) == depth < maxDepth

RECURSIVE Folder_listDirectoryContents(_, _)
RECURSIVE Folder_listEntries(_, _, _)
\* the loop over sortedEntries: [out, calls]
Folder_listEntries(dirPath, sortedEntries, depth) ==
  IF sortedEntries = <<>> THEN [out |-> <<>>, calls |-> <<>>]
  ELSE
  LET name == Head(sortedEntries)
      entryPath == join(dirPath, name)
      extension == extname(name)
      isAllowedFile == extension \in allowedExtensions \/ extension = <<>>
      here ==
        IF FS[entryPath].kind = "dir"
        THEN LET sub == IF descends(depth)
                        THEN Folder_listDirectoryContents(entryPath, depth + 1)
                        ELSE [out |-> <<>>, calls |-> <<>>]
             IN [out |-> Indent(depth) \o <<"[dir] ">> \o name \o <<"/\n">>
                         \o sub.out,
                 calls |-> sub.calls]
        ELSE [out |-> Indent(depth) \o <<"[file] ">> \o name \o <<" (">>
                      \o formatFileSize(FS[entryPath].size) \o <<")">>
                      \o (IF isAllowedFile THEN <<>> ELSE <<" (restricted)">>)
                      \o <<"\n">>,
              calls |-> <<Stat(entryPath)>>]
      rest == Folder_listEntries(dirPath, Tail(sortedEntries), depth)
  IN [out |-> here.out \o rest.out, calls |-> here.calls \o rest.calls]

Folder_listDirectoryContents(dirPath, depth) ==
  IF depth > maxDepth
  THEN [out |-> Indent(depth) \o <<"... (max depth reached)\n">>,
        calls |-> <<>>]
  ELSE LET r == Folder_listEntries(dirPath,
                                   SortEntries(dirPath, Entries(dirPath)), depth)
       IN [out |-> r.out, calls |-> <<Readdir(dirPath)>> \o r.calls]

Folder_execute(parameters) ==
  IF ~CanRead(parameters)
  THEN Returned(Failure("TypeError"), <<>>)
  ELSE
  LET validationResult == Folder_validatePath(Prop(parameters, "path"))
  IN  IF ~validationResult.valid
      THEN Returned(Failure(validationResult.error), validationResult.calls)
      ELSE LET contents == Folder_listDirectoryContents(
                               resolve(Prop(parameters, "path").v), 0)
           IN Returned(Success(contents.out),
                       validationResult.calls \o contents.calls)

\* ------------------------------------------------------------------------
\* WebSearchTool
\* ------------------------------------------------------------------------
ToLower(c) ==
  CASE c = "S" -> "s" [] c = "P" -> "p" [] c = "L" -> "l" [] c = "Q" -> "q"
    [] c = "J" -> "j" [] OTHER -> c

toLowerCase(str) == [i \in 1..Len(str) |-> ToLower(str[i])]

WebSearch_getMockSearchResults(query) ==
  LET lowerQuery == toLowerCase(query) IN
  IF /\ Includes(lowerQuery, <<"s", "p", "l", "u", "n", "k">>)
     /\ Includes(lowerQuery, <<"q", "u", "e", "r", "y">>)
  THEN <<"## Splunk Query Best Practices">>
  ELSE IF \/ Includes(lowerQuery, <<"s", "p", "l">>)
          \/ Includes(lowerQuery, <<"s", "e", "a", "r", "c", "h", " ",
                                     "p", "r", "o", "c", "e", "s", "s", "i", "n", "g", " ",
                                     "l", "a", "n", "g", "u", "a", "g", "e">>)
  THEN <<"## Splunk Search Processing Language (SPL) Guide">>
  ELSE <<"Mock search results for query: ", "\"">> \o query \o <<"\"", ".">>

WebSearch_execute(parameters) ==
  IF ~CanRead(parameters) \/ ~IsString(Prop(parameters, "query"))
  THEN Returned(Failure("TypeError"), <<>>)
  ELSE Returned(Success(WebSearch_getMockSearchResults(
                            Prop(parameters, "query").v)), <<>>)

\* ------------------------------------------------------------------------
\* ToolRegistry
\* ------------------------------------------------------------------------
ToolNames == {"web_search", "file_system_grep", "terminal_command",
              "folder_file_indexing", "read_file"}

\* the tool instances of registerTools, in the order they are created
WebSearchTool == [class |-> "WebSearchTool", name |-> "web_search"]
FileSystemGrepTool == [class |-> "FileSystemGrepTool", name |-> "file_system_grep"]
TerminalCommandTool == [class |-> "TerminalCommandTool", name |-> "terminal_command"]
FolderIndexingTool == [class |-> "FolderIndexingTool", name |-> "folder_file_indexing"]
ReadFileTool == [class |-> "ReadFileTool", name |-> "read_file"]

toolInstances == <<WebSearchTool, FileSystemGrepTool, TerminalCommandTool,
                   FolderIndexingTool, ReadFileTool>>

\* a Map, as the sequence of its entries in insertion order
MapHas(map, key) == \E i \in 1..Len(map) : map[i].key = key

\* the value undefined, where a tool instance could be
NoTool == [class |-> "undefined"]

\* Map.prototype.get
MapGet(map, key) ==
  IF MapHas(map, key)
  THEN map[CHOOSE i \in 1..Len(map) : map[i].key = key].value
  ELSE NoTool

\* Map.prototype.set: a key that is there keeps its place
MapSet(map, key, value) ==
  IF MapHas(map, key)
  THEN [i \in 1..Len(map) |->
          IF map[i].key = key THEN [key |-> key, value |-> value] ELSE map[i]]
  ELSE Append(map, [key |-> key, value |-> value])

\* registerTools with every tool stored under the name of its class
RECURSIVE registerTools_KeyedByClass(_, _)
registerTools_KeyedByClass(map, instances) ==
  IF instances = <<>> THEN map
  ELSE registerTools_KeyedByClass(
         MapSet(map, Head(instances).class, Head(instances)), Tail(instances))

\* registerTools: for (const tool of toolInstances) tools.set(tool.name, tool)
RECURSIVE registerTools(_, _)
registerTools(map, instances) ==
  IF instances = <<>> THEN map
  ELSE registerTools(MapSet(map, Head(instances).name, Head(instances)),
                     Tail(instances))

\* new ToolRegistry(): the tools map after the constructor
tools == registerTools(<<>>, toolInstances)

\* the tools map of the one toolRegistry of the process
VARIABLE registry

\* getTool(name): this.tools.get(name), a tool instance or undefined
getTool(name) ==
  IF IsString(name) THEN MapGet(registry, name.v) ELSE NoTool

\* getAllTools(): Array.from(this.tools.values())
getAllTools == [i \in 1..Len(registry) |-> registry[i].value]

\* getToolNames(): Array.from(this.tools.keys())
getToolNames == [i \in 1..Len(registry) |-> registry[i].key]

\* tool.execute(parameters) of the tool registered under a name
Execute(tool, parameters, proc) ==
  CASE tool = "web_search" -> WebSearch_execute(parameters)
    [] tool = "file_system_grep" -> Grep_execute(parameters, proc)
    [] tool = "terminal_command" -> Terminal_execute(parameters, proc)
    [] tool = "folder_file_indexing" -> Folder_execute(parameters)
    [] tool = "read_file" -> ReadFile_execute(parameters)

\* ------------------------------------------------------------------------
\* Inputs
\* ------------------------------------------------------------------------
SeqsUpTo(S, n) == UNION {[1..k -> S] : k \in 0..n}

PathSegs ==
  { <<"w">>, <<"w", "x">>, <<"s">>, <<"e">>, <<"d">>, <<".", ".">>,
    <<"a", ".", "t">>, <<"b", ".", "t">>, <<"c", ".", "x">>,
    <<"a">>, <<"a", "~">> }

RECURSIVE JoinRel(_)
JoinRel(segs) ==
  IF segs = <<>> THEN <<>>
  ELSE IF Len(segs) = 1 THEN Head(segs)
  ELSE Head(segs) \o <<"/">> \o JoinRel(Tail(segs))

\* relative and absolute paths of at most MaxSegs segments
PathInputs ==
  LET rel == {JoinRel(ss) : ss \in SeqsUpTo(PathSegs, MaxSegs)}
  IN rel \cup {<<"/">> \o r : r \in rel}

CmdAtoms ==
  { <<"l", "s">>, <<"r", "m">>, <<" ">>, <<"\n">>,
    <<";">>, <<"-", "r", "f">>, <<"/">>, <<".", ".">>,
    <<"s", "u">>, <<">">>, <<"c", "u", "r", "l">>, <<"-", "o">>,
    <<"/", "d", "e", "v", "/">> }

\* command lines of at most MaxCmdAtoms pieces, alone and as arguments of ls
CmdInputs ==
  LET base == {Concat(ss) : ss \in SeqsUpTo(CmdAtoms, MaxCmdAtoms)}
  IN base \cup {<<"l", "s", " ">> \o c : c \in base}

\* parameter objects the model's JSON can carry for one key
BadParams(key) ==
  { Undefined, Null, Num(1), Obj([other |-> Null]),
    Obj([k \in {key} |-> Undefined]), Obj([k \in {key} |-> Null]),
    Obj([k \in {key} |-> Num(1)]) }

ParamsFor(tool) ==
  CASE tool = "read_file" ->
         BadParams("filepath") \cup
         {Obj([filepath |-> Str(q)]) : q \in PathInputs}
    [] tool = "folder_file_indexing" ->
         BadParams("path") \cup {Obj([path |-> Str(q)]) : q \in PathInputs}
    [] tool = "file_system_grep" ->
         BadParams("path") \cup
         {Obj([path |-> Str(q), pattern |-> pt]) :
            q \in PathInputs, pt \in {Str(<<"a", "$", "\"", "\n", "i", "d", " ", "#">>), Undefined}}
    [] tool = "terminal_command" ->
         BadParams("command") \cup
         {Obj([command |-> Str(c)]) : c \in CmdInputs}
    [] tool = "web_search" ->
         BadParams("query") \cup
         {Obj([query |-> Str(q)]) :
            q \in { <<>>, <<"x">>, <<"S", "P", "L">>,
                    <<"s", "p", "l", "u", "n", "k", " ", "q", "u", "e", "r", "y">> }}

\* ------------------------------------------------------------------------
\* SplunkQueryAgent: texts exchanged with the language model
\* ------------------------------------------------------------------------
Arr(l) == [t |-> "array", v |-> l]

\* the content of the tool-selection answer: free text, or JSON text
\* together with the value JSON.parse gives for it
FreeText == [json |-> FALSE]
Json(v) == [json |-> TRUE, value |-> v]

Name(n) == [t |-> "string", v |-> n]
ToolSpec(n, ps) == Obj([name |-> Name(n), parameters |-> ps])

CmdRmRf == <<"r", "m", " ", "-", "r", "f", " ", "/">>
CmdLs == <<"l", "s">>

\* elements the model can put in the "tools" array
DecisionElems ==
  { Null,
    ToolSpec("unknown_tool", Obj([other |-> Null])),
    ToolSpec("terminal_command", Obj([command |-> Str(CmdRmRf)])),
    ToolSpec("terminal_command", Obj([command |-> Str(CmdLs)])) }

Decisions ==
  { FreeText, Json(Null), Json(Name("none")),
    Json(Obj([tools |-> Name("none")])), Json(Obj([tools |-> Num(1)])),
    Json(Obj([other |-> Null])) }
  \cup {Json(Obj([tools |-> Arr(l)])) : l \in SeqsUpTo(DecisionElems, MaxTools)}

\* context_files of a request
CtxChoices ==
  { <<"a", ".", "t">>,                              \* readable, in the sandbox
    <<"m">>,                                        \* missing
    <<".", ".", "/", "e", "/", "a", ".", "t">>,     \* outside the sandbox
    <<"b", ".", "t">> }                             \* too large

\* the final answer of the model, as a sequence of pieces of text
\* (the labels, white space, and other text)
Responses ==
  { <<>>,
    <<" ", "\n">>,
    <<"q">>,
    <<"QUERY:", " ", "q", "\n", "\n", "EXPLANATION:", " ", "e">> }

\* the answers given when two requests are in flight
PairDecisions ==
  { Json(Obj([tools |-> Name("none")])),
    Json(Obj([tools |-> Arr(<<ToolSpec("terminal_command",
                                       Obj([command |-> Str(CmdLs)]))>>)])),
    Json(Obj([tools |-> Arr(<<ToolSpec("terminal_command",
                                       Obj([command |-> Str(CmdRmRf)])),
                              ToolSpec("unknown_tool", Obj([other |-> Null])),
                              ToolSpec("terminal_command",
                                       Obj([command |-> Str(CmdLs)]))>>)])) }

PairResponses ==
  { <<"q">>,
    <<"QUERY:", " ", "q", "\n", "\n", "EXPLANATION:", " ", "e">> }

ModelErrors == {"rate limited", "connection reset"}

buildFinalQueryPrompt(additionalContext) ==
  <<"Generate a Splunk query for: ", "<prompt>">>
  \o (IF additionalContext # <<>>
      THEN <<"\n\nAdditional context from tools:">> \o additionalContext
      ELSE <<>>)
  \o <<"\n\nProvide the response in the exact format:">>

\* first position >= i of s that is not white space (Len(s) + 1 if none)
RECURSIVE SkipSpace(_, _)
SkipSpace(s, i) ==
  IF i <= Len(s) /\ IsSpace(s[i]) THEN SkipSpace(s, i + 1) ELSE i

FirstIndex(s, a) ==
  IF \E i \in 1..Len(s) : s[i] = a
  THEN CHOOSE i \in 1..Len(s) : s[i] = a /\ \A j \in 1..(i - 1) : s[j] # a
  ELSE 0

\* response.match(/QUERY:\s*(.*?)(?=\n\nEXPLANATION:|$)/s)?.[1]
queryMatch(response) ==
  LET i == FirstIndex(response, "QUERY:")
      start == SkipSpace(response, i + 1)
      stops == {j \in start..(Len(response) + 1) :
                  \/ j = Len(response) + 1
                  \/ At(response, j, <<"\n", "\n", "EXPLANATION:">>)}
      stop == CHOOSE j \in stops : \A k \in stops : j <= k
  IN IF i = 0 THEN [matched |-> FALSE]
     ELSE [matched |-> TRUE, group |-> SubSeq(response, start, stop - 1)]

\* response.match(/EXPLANATION:\s*(.*?)$/s)?.[1]
explanationMatch(response) ==
  LET i == FirstIndex(response, "EXPLANATION:")
      start == SkipSpace(response, i + 1)
  IN IF i = 0 THEN [matched |-> FALSE]
     ELSE [matched |-> TRUE, group |-> SubSeq(response, start, Len(response))]

\* parseQueryResponse without the fall back to the whole answer
parseQueryResponse_NoFallback(response) ==
  LET qm == queryMatch(response)
      em == explanationMatch(response)
  IN [query |-> IF qm.matched THEN Trim(qm.group) ELSE <<>>,
      explanation |-> IF em.matched /\ Trim(em.group) # <<>>
                      THEN Trim(em.group)
                      ELSE <<"No explanation provided">>]

parseQueryResponse(response) ==
  LET qm == queryMatch(response)
      em == explanationMatch(response)
  IN [query |-> IF qm.matched /\ Trim(qm.group) # <<>>
                THEN Trim(qm.group) ELSE Trim(response),
      explanation |-> IF em.matched /\ Trim(em.group) # <<>>
                      THEN Trim(em.group)
                      ELSE <<"No explanation provided">>]

\* ------------------------------------------------------------------------
\* State
\* ------------------------------------------------------------------------
VARIABLES
  tool,        \* SpecTools: the tool whose execute is called
  params,      \* SpecTools: the parameters it is called with
  proc,        \* SpecTools: what the child process of the call does
  ret,         \* SpecTools: what the call handed back (Pending before)
  pc,          \* position of the request in generateQuery
  contextFiles,      \* request.context_files
  ci,                \* index of the context file analyzeContextFiles is at
  analysisResults,   \* analysisResults of analyzeContextFiles
  toolDecisionResponse,  \* content of the tool-selection answer
  decision,          \* toolDecision.tools, once it is known to be an array
  ti,                \* index of the toolSpec the dispatch loop is at
  executed,          \* the tool.execute calls made by the dispatch loop
  toolCalls,         \* toolCalls of runQueryGeneration
  additionalContext, \* additionalContext of runQueryGeneration
  calls,             \* system calls made on behalf of the request, in order
  modelCalls,        \* calls of the language model issued, in order
  finalText,         \* the answer of the final-generation call
  response,          \* the QueryResponse returned (NoResponse before)
  inFlight,          \* tool.execute calls awaited and not yet settled
  results,           \* the ToolResults tool.execute handed back, in order
  parked,            \* locals of the other request in flight (NoPeer if none)
  lookups            \* SpecRegistry: the registry calls made and their results

toolVars == <<tool, params, proc, ret>>
reqVars == <<contextFiles, ci, analysisResults, toolDecisionResponse,
             decision, ti, executed, toolCalls, additionalContext, calls,
             modelCalls, finalText, response, inFlight, results>>
\* what the requests of the process share
envVars == <<registry, parked, lookups>>
vars == <<tool, params, proc, ret, pc, contextFiles, ci, analysisResults,
          toolDecisionResponse, decision, ti, executed, toolCalls,
          additionalContext, calls, modelCalls, finalText, response,
          inFlight, results, registry, parked, lookups>>

Pending == [raised |-> FALSE, pending |-> TRUE]
NoResponse == [status |-> "none"]
NoDecision == [json |-> FALSE, pending |-> TRUE]
NoText == <<"<no answer>">>
NoPeer == [pc |-> "none"]

\* module load: the toolRegistry is constructed, no request is in flight
InitEnv ==
  /\ registry = tools
  /\ parked = NoPeer
  /\ lookups = <<>>

InitRequest ==
  /\ ci = 1
  /\ analysisResults = <<>>
  /\ toolDecisionResponse = NoDecision
  /\ decision = <<>>
  /\ ti = 1
  /\ executed = <<>>
  /\ toolCalls = <<>>
  /\ additionalContext = <<>>
  /\ calls = <<>>
  /\ modelCalls = <<>>
  /\ finalText = NoText
  /\ response = NoResponse
  /\ inFlight = <<>>
  /\ results = <<>>

\* ------------------------------------------------------------------------
\* SpecTools: one call of one tool's execute on any parameters
\* ------------------------------------------------------------------------
InitTools ==
  /\ pc = "tool"
  /\ tool \in ToolNames
  /\ params \in ParamsFor(tool)
  /\ proc \in ProcsFor(tool)
  /\ ret = Pending
  /\ contextFiles = <<>>
  /\ InitRequest
  /\ InitEnv

Call(t) ==
  /\ pc = "tool"
  /\ tool = t
  /\ ret = Pending
  /\ ret' = Execute(t, params, proc)
  /\ UNCHANGED <<tool, params, proc, pc>>
  /\ UNCHANGED reqVars
  /\ UNCHANGED envVars

CallWebSearch == Call("web_search")
CallGrep == Call("file_system_grep")
CallTerminal == Call("terminal_command")
CallFolder == Call("folder_file_indexing")
CallReadFile == Call("read_file")

NextTools ==
  \/ CallWebSearch
  \/ CallGrep
  \/ CallTerminal
  \/ CallFolder
  \/ CallReadFile

SpecTools == InitTools /\ [][NextTools]_vars

\* ------------------------------------------------------------------------
\* SpecParse: parseQueryResponse on any answer of the model
\* ------------------------------------------------------------------------
\* the pieces an answer is made of: the two labels, white space, other text
ParseTokens == {"QUERY:", "EXPLANATION:", "\n", " ", "q"}

InitParse ==
  /\ pc = "parse"
  /\ finalText \in SeqsUpTo(ParseTokens, MaxRespLen)
  /\ tool = "none"
  /\ params = Undefined
  /\ proc = ProcOk
  /\ ret = Pending
  /\ contextFiles = <<>>
  /\ ci = 1
  /\ analysisResults = <<>>
  /\ toolDecisionResponse = NoDecision
  /\ decision = <<>>
  /\ ti = 1
  /\ executed = <<>>
  /\ toolCalls = <<>>
  /\ additionalContext = <<>>
  /\ calls = <<>>
  /\ modelCalls = <<>>
  /\ response = NoResponse
  /\ inFlight = <<>>
  /\ results = <<>>
  /\ InitEnv

ParseResponse ==
  /\ pc = "parse"
  /\ ret = Pending
  /\ ret' = [raised |-> FALSE, result |-> parseQueryResponse(finalText)]
  /\ UNCHANGED <<tool, params, proc, pc>>
  /\ UNCHANGED reqVars
  /\ UNCHANGED envVars

NextParse == ParseResponse

SpecParse == InitParse /\ [][NextParse]_vars

\* ------------------------------------------------------------------------
\* SpecRegistry: calls of the methods of the toolRegistry
\* ------------------------------------------------------------------------
\* names a caller can ask for: the five tools, and names that are not there
LookupNames ==
  {Str(n) : n \in ToolNames}
  \cup {Str("unknown_tool"), Str("WebSearchTool"), Undefined}

InitRegistry ==
  /\ pc = "registry"
  /\ tool = "none"
  /\ params = Undefined
  /\ proc = ProcOk
  /\ ret = Pending
  /\ contextFiles = <<>>
  /\ InitRequest
  /\ InitEnv

\* toolRegistry.getTool(name)
GetTool ==
  /\ pc = "registry"
  /\ Len(lookups) < MaxLookups
  /\ \E name \in LookupNames :
       lookups' = Append(lookups, [op |-> "getTool", name |-> name,
                                   result |-> getTool(name)])
  /\ UNCHANGED <<registry, parked, pc>>
  /\ UNCHANGED toolVars
  /\ UNCHANGED reqVars

\* toolRegistry.getAllTools()
GetAllTools ==
  /\ pc = "registry"
  /\ Len(lookups) < MaxLookups
  /\ lookups' = Append(lookups, [op |-> "getAllTools", result |-> getAllTools])
  /\ UNCHANGED <<registry, parked, pc>>
  /\ UNCHANGED toolVars
  /\ UNCHANGED reqVars

\* toolRegistry.getToolNames()
GetToolNames ==
  /\ pc = "registry"
  /\ Len(lookups) < MaxLookups
  /\ lookups' = Append(lookups, [op |-> "getToolNames",
                                 result |-> getToolNames])
  /\ UNCHANGED <<registry, parked, pc>>
  /\ UNCHANGED toolVars
  /\ UNCHANGED reqVars

NextRegistry ==
  \/ GetTool
  \/ GetAllTools
  \/ GetToolNames

SpecRegistry == InitRegistry /\ [][NextRegistry]_vars

\* ------------------------------------------------------------------------
\* Spec: one request through SplunkQueryAgent.generateQuery
\* ------------------------------------------------------------------------
Init ==
  /\ pc = "ContextBuild"
  /\ contextFiles \in SeqsUpTo(CtxChoices, MaxCtx)
  /\ tool = "none"
  /\ params = Undefined
  /\ proc = ProcOk
  /\ ret = Pending
  /\ InitRequest
  /\ InitEnv

\* for (const filePath of filePaths): the turn after turn i of n, whatever
\* the read gave
\* nextContextFile leaving the loop at the first file that cannot be read
nextContextFile_Break(i, n, readResult) ==
  IF readResult.raised \/ ~readResult.result.success THEN n + 1 ELSE i + 1

nextContextFile(i, n, readResult) == i + 1

\* analyzeContextFiles: one turn of the loop over filePaths.  The analyzer
\* returns or throws; whatever is thrown in the turn is caught and logged.
AnalyzeContextFile ==
  /\ pc = "ContextBuild"
  /\ ci <= Len(contextFiles)
  /\ \E filePath \in {contextFiles[ci]} :
     \E readResult \in {ReadFile_execute(Obj([filepath |-> Str(filePath)]))} :
        /\ calls' = calls \o readResult.calls
        /\ \E analyzerThrows \in BOOLEAN :
             analysisResults' =
               IF ~readResult.raised /\ readResult.result.success
                  /\ ~analyzerThrows
               THEN Append(analysisResults, [filePath |-> filePath])
               ELSE analysisResults
        /\ ci' = nextContextFile(ci, Len(contextFiles), readResult)
  /\ UNCHANGED <<pc, contextFiles, toolDecisionResponse, decision, ti,
                 executed, toolCalls, additionalContext, modelCalls,
                 finalText, response>>
  /\ UNCHANGED inFlight
  /\ UNCHANGED results
  /\ UNCHANGED toolVars
  /\ UNCHANGED envVars

\* runQueryGeneration up to the first llm.invoke
IssueToolSelection ==
  /\ pc = "ContextBuild"
  /\ ci > Len(contextFiles)
  /\ modelCalls' = Append(modelCalls,
                          [call |-> "tool_selection",
                           analysis |-> analysisResults,
                           prompt |-> <<"<toolDecisionPrompt>">>])
  /\ pc' = "AwaitToolDecision"
  /\ UNCHANGED <<contextFiles, ci, analysisResults, toolDecisionResponse,
                 decision, ti, executed, toolCalls, additionalContext, calls,
                 finalText, response>>
  /\ UNCHANGED inFlight
  /\ UNCHANGED results
  /\ UNCHANGED toolVars
  /\ UNCHANGED envVars

\* does JSON.parse(content).tools give an array to loop over?
IsToolArray(content) ==
  /\ content.json
  /\ CanRead(content.value)
  /\ Prop(content.value, "tools").t = "array"

\* where runQueryGeneration goes after the answer: into the loop over the
\* tools, or (nothing to loop over, or an exception caught) to the final call
\* afterToolDecision with the exception of JSON.parse not caught
afterToolDecision_NoCatch(content) ==
  IF ~content.json \/ ~CanRead(content.value)
  THEN "Done"
  ELSE IF IsToolArray(content) /\ Prop(content.value, "tools").v # <<>>
  THEN "ToolDispatch"
  ELSE "FinalGeneration"

\* afterToolDecision asking the model again when the answer is not JSON
afterToolDecision_AsksAgain(content) ==
  IF ~content.json
  THEN "ContextBuild"
  ELSE IF IsToolArray(content) /\ Prop(content.value, "tools").v # <<>>
  THEN "ToolDispatch"
  ELSE "FinalGeneration"

afterToolDecision(content) ==
  IF IsToolArray(content) /\ Prop(content.value, "tools").v # <<>>
  THEN "ToolDispatch"
  ELSE "FinalGeneration"

\* the answers the model gives: all of them to a request that runs alone,
\* a few of each kind to two requests in flight
DecisionChoices == IF parked = NoPeer THEN Decisions ELSE PairDecisions
ResponseChoices == IF parked = NoPeer THEN Responses ELSE PairResponses

\* the first llm.invoke returns; the answer is parsed
ToolSelectionReturns ==
  /\ pc = "AwaitToolDecision"
  /\ \E content \in DecisionChoices :
       /\ toolDecisionResponse' = content
       /\ pc' = afterToolDecision(content)
       /\ decision' = IF IsToolArray(content)
                      THEN Prop(content.value, "tools").v ELSE <<>>
  /\ ti' = 1
  /\ UNCHANGED <<contextFiles, ci, analysisResults, executed, toolCalls,
                 additionalContext, calls, modelCalls, finalText, response>>
  /\ UNCHANGED inFlight
  /\ UNCHANGED results
  /\ UNCHANGED toolVars
  /\ UNCHANGED envVars

\* the error answer with the tool calls made so far attached
errorResponse_WithToolCalls(message) ==
  [status |-> "error", error_message |-> message, tool_calls |-> toolCalls]

\* the answer of the catch of generateQuery
errorResponse(message) == [status |-> "error", error_message |-> message]

\* a model call throws: generateQuery catches it and answers with an error
ModelCallFails ==
  /\ pc \in {"AwaitToolDecision", "AwaitFinal"}
  /\ \E m \in ModelErrors :
       response' = errorResponse(m)
  /\ pc' = "Done"
  /\ UNCHANGED <<contextFiles, ci, analysisResults, toolDecisionResponse,
                 decision, ti, executed, toolCalls, additionalContext, calls,
                 modelCalls, finalText>>
  /\ UNCHANGED inFlight
  /\ UNCHANGED results
  /\ UNCHANGED toolVars
  /\ UNCHANGED envVars

\* toolCalls.push({tool_name, parameters, output: result.output})
pushToolCall(list, name, parameters, result) ==
  Append(list, [tool_name |-> name, parameters |-> parameters,
                output |-> result.output])

\* the output of every tool added, whatever its result
addContext_Always(context, name, result) ==
  context \o <<"\n\n--- ", name, " Output ---\n">> \o result.output

\* if (result.success) additionalContext += ...
addContext(context, name, result) ==
  IF result.success
  THEN context \o <<"\n\n--- ", name, " Output ---\n">> \o result.output
  ELSE context

\* a loop that does not end after the last element
AfterTurn_NeverLeaves == "ToolDispatch"

AfterTurn == IF ti = Len(decision) THEN "FinalGeneration" ELSE "ToolDispatch"

\* a tool failure ending the request
afterToolResult_AbortOnFailure(result) ==
  IF result.success THEN AfterTurn ELSE "Done"

\* where the loop goes once tool.execute has handed back its result
afterToolResult(result) == AfterTurn

\* the next tool started without waiting for the one just started
awaitToolExecute_NotAwaited == "ToolDispatch"

\* await tool.execute(...): the loop is suspended until the call settles
awaitToolExecute == "AwaitTool"

\* one turn of the loop over toolDecision.tools, up to the call of
\* tool.execute; an exception in the turn leaves the loop through the catch
\* of runQueryGeneration
DispatchTool ==
  /\ pc = "ToolDispatch"
  /\ ti <= Len(decision)
  /\ LET toolSpec == decision[ti]
         found == getTool(Prop(toolSpec, "name"))
     IN IF ~CanRead(toolSpec)
        THEN /\ pc' = "FinalGeneration"
             /\ UNCHANGED <<ti, inFlight>>
        ELSE IF found = NoTool
        THEN /\ pc' = AfterTurn
             /\ ti' = ti + 1
             /\ UNCHANGED inFlight
        ELSE /\ inFlight' = Append(inFlight,
                                   [index |-> ti,
                                    tool |-> found.name,
                                    tool_name |-> Prop(toolSpec, "name").v,
                                    parameters |-> Prop(toolSpec, "parameters")])
             /\ pc' = awaitToolExecute
             /\ UNCHANGED ti
  /\ UNCHANGED <<contextFiles, ci, analysisResults, toolDecisionResponse,
                 decision, executed, toolCalls, additionalContext, calls,
                 modelCalls, finalText, response, results>>
  /\ UNCHANGED toolVars
  /\ UNCHANGED envVars

\* tool.execute settles: the rest of the turn
ToolReturns ==
  /\ pc = "AwaitTool"
  /\ inFlight # <<>>
  /\ \E call \in {Head(inFlight)} :
     \E p \in ProcsFor(call.tool) \ {ProcOkStderr} :
     \E result \in {Execute(call.tool, call.parameters, p)} :
        /\ executed' = Append(executed, [tool |-> call.tool_name,
                                         parameters |-> call.parameters])
        /\ calls' = calls \o result.calls
        /\ IF result.raised
           THEN /\ pc' = "FinalGeneration"
                /\ UNCHANGED <<ti, toolCalls, additionalContext, results>>
           ELSE /\ results' = Append(results, result.result)
                /\ toolCalls' =
                     pushToolCall(toolCalls, call.tool_name, call.parameters,
                                  result.result)
                /\ additionalContext' =
                     addContext(additionalContext, call.tool_name,
                                result.result)
                /\ ti' = ti + 1
                /\ pc' = afterToolResult(result.result)
  /\ inFlight' = Tail(inFlight)
  /\ UNCHANGED <<contextFiles, ci, analysisResults, toolDecisionResponse,
                 decision, modelCalls, finalText, response>>
  /\ UNCHANGED toolVars
  /\ UNCHANGED envVars

\* buildFinalQueryPrompt and chain.invoke
IssueFinalGeneration ==
  /\ pc = "FinalGeneration"
  /\ modelCalls' = Append(modelCalls,
                          [call |-> "final",
                           analysis |-> analysisResults,
                           prompt |-> buildFinalQueryPrompt(additionalContext)])
  /\ pc' = "AwaitFinal"
  /\ UNCHANGED <<contextFiles, ci, analysisResults, toolDecisionResponse,
                 decision, ti, executed, toolCalls, additionalContext, calls,
                 finalText, response>>
  /\ UNCHANGED inFlight
  /\ UNCHANGED results
  /\ UNCHANGED toolVars
  /\ UNCHANGED envVars

\* the result with tool_calls attached whatever its length
successResponse_AlwaysAttach(parsed, list) ==
  [status |-> "success", query |-> parsed.query,
   explanation |-> parsed.explanation, tool_calls |-> list]

\* const result = {status: 'success', query, explanation};
\* if (toolCalls.length > 0) result.tool_calls = toolCalls
successResponse(parsed, list) ==
  LET result == [status |-> "success", query |-> parsed.query,
                 explanation |-> parsed.explanation]
  IN IF Len(list) > 0 THEN result @@ [tool_calls |-> list] ELSE result

\* the final call returns; the response is assembled
FinalReturns ==
  /\ pc = "AwaitFinal"
  /\ \E text \in ResponseChoices :
       /\ finalText' = text
       /\ response' = successResponse(parseQueryResponse(text), toolCalls)
  /\ pc' = "Done"
  /\ UNCHANGED <<contextFiles, ci, analysisResults, toolDecisionResponse,
                 decision, ti, executed, toolCalls, additionalContext, calls,
                 modelCalls>>
  /\ UNCHANGED inFlight
  /\ UNCHANGED results
  /\ UNCHANGED toolVars
  /\ UNCHANGED envVars

Next ==
  \/ AnalyzeContextFile
  \/ IssueToolSelection
  \/ ToolSelectionReturns
  \/ ModelCallFails
  \/ DispatchTool
  \/ ToolReturns
  \/ IssueFinalGeneration
  \/ FinalReturns

Spec == Init /\ [][Next]_vars

\* ------------------------------------------------------------------------
\* SpecValidate: the validators of the four guarded tools called one after
\* the other, in any order, on a filesystem and a configuration that stay
\* as they are
\* ------------------------------------------------------------------------
ValidateCommands ==
  { <<>>, <<"l", "s">>, <<"r", "m", " ", "-", "r", "f", " ", "/">>,
    <<"c", "u", "r", "l">> }

ValidatePaths ==
  { <<"a", ".", "t">>, <<"b", ".", "t">>, <<"c", ".", "x">>,
    <<".", ".", "/", "e">> }

InitValidate ==
  /\ pc = "validate"
  /\ tool = "none"
  /\ params = Undefined
  /\ proc = ProcOk
  /\ ret = Pending
  /\ contextFiles = <<>>
  /\ InitRequest
  /\ InitEnv

\* a validator whose patterns are kept between the calls and remember
\* where they matched: the input rejected last passes when given again
validate_RemembersLastMatch(validator, input) ==
  IF /\ lookups # <<>>
     /\ lookups[Len(lookups)].op = validator
     /\ lookups[Len(lookups)].input = input
     /\ ~lookups[Len(lookups)].result.valid
  THEN Valid
  ELSE CASE validator = "terminal_command" -> Terminal_validateCommand(input.v)
         [] validator = "read_file" -> ReadFile_validateFile(input)
         [] validator = "file_system_grep" -> Grep_validatePath(input)
         [] validator = "folder_file_indexing" -> Folder_validatePath(input)

\* this.validateCommand(parameters.command), this.validateFile(
\* parameters.filepath), this.validatePath(parameters.path)
validate(validator, input) ==
  CASE validator = "terminal_command" -> Terminal_validateCommand(input.v)
    [] validator = "read_file" -> ReadFile_validateFile(input)
    [] validator = "file_system_grep" -> Grep_validatePath(input)
    [] validator = "folder_file_indexing" -> Folder_validatePath(input)

\* TerminalCommandTool.validateCommand(command)
ValidateCommand ==
  /\ pc = "validate"
  /\ Len(lookups) < MaxValidations
  /\ \E command \in ValidateCommands :
     \E result \in {validate("terminal_command", Str(command))} :
       lookups' = Append(lookups, [op |-> "terminal_command",
                                   input |-> Str(command),
                                   result |-> result])
  /\ UNCHANGED <<registry, parked, pc>>
  /\ UNCHANGED toolVars
  /\ UNCHANGED reqVars

\* ReadFileTool.validateFile(filePath)
ValidateFile ==
  /\ pc = "validate"
  /\ Len(lookups) < MaxValidations
  /\ \E filePath \in ValidatePaths :
     \E result \in {validate("read_file", Str(filePath))} :
       lookups' = Append(lookups, [op |-> "read_file",
                                   input |-> Str(filePath),
                                   result |-> result])
  /\ UNCHANGED <<registry, parked, pc>>
  /\ UNCHANGED toolVars
  /\ UNCHANGED reqVars

\* FileSystemGrepTool.validatePath(inputPath)
ValidateGrepPath ==
  /\ pc = "validate"
  /\ Len(lookups) < MaxValidations
  /\ \E inputPath \in ValidatePaths :
     \E result \in {validate("file_system_grep", Str(inputPath))} :
       lookups' = Append(lookups, [op |-> "file_system_grep",
                                   input |-> Str(inputPath),
                                   result |-> result])
  /\ UNCHANGED <<registry, parked, pc>>
  /\ UNCHANGED toolVars
  /\ UNCHANGED reqVars

\* FolderIndexingTool.validatePath(inputPath)
ValidateFolderPath ==
  /\ pc = "validate"
  /\ Len(lookups) < MaxValidations
  /\ \E inputPath \in ValidatePaths \cup {<<"d">>} :
     \E result \in {validate("folder_file_indexing", Str(inputPath))} :
       lookups' = Append(lookups, [op |-> "folder_file_indexing",
                                   input |-> Str(inputPath),
                                   result |-> result])
  /\ UNCHANGED <<registry, parked, pc>>
  /\ UNCHANGED toolVars
  /\ UNCHANGED reqVars

NextValidate ==
  \/ ValidateCommand
  \/ ValidateFile
  \/ ValidateGrepPath
  \/ ValidateFolderPath

SpecValidate == InitValidate /\ [][NextValidate]_vars

\* ------------------------------------------------------------------------
\* CodeAnalyzer (src/analysis/codeAnalyzer.ts).  The content of a file is a
\* sequence of lines; a regular expression is the lines it matches and the
\* text it matches in each.
\* ------------------------------------------------------------------------
LineFunction == "function f() {}"
LineDef == "def f(x):"
LineProperty == "k: 'v'"
LineJson == "{\"k\": 1}"
LineCsv == "a,b"
LineLog == "2024-01-01 [INFO] x"
LineConsole == "console.log(1)"
LineImport == "import os"

ContentLines ==
  { LineFunction, LineDef, LineProperty, LineJson, LineCsv, LineLog,
    LineConsole, LineImport }

typeMap ==
  ( <<".", "j", "s">> :> "javascript" ) @@
  ( <<".", "t", "s">> :> "typescript" ) @@
  ( <<".", "p", "y">> :> "python" ) @@
  ( <<".", "j", "a", "v", "a">> :> "java" ) @@
  ( <<".", "j", "s", "o", "n">> :> "json" ) @@
  ( <<".", "x", "m", "l">> :> "xml" ) @@
  ( <<".", "c", "s", "v">> :> "csv" ) @@
  ( <<".", "l", "o", "g">> :> "log" ) @@
  ( <<".", "t", "x", "t">> :> "text" ) @@
  ( <<".", "y", "m", "l">> :> "yaml" ) @@
  ( <<".", "y", "a", "m", "l">> :> "yaml" ) @@
  ( <<".", "c", "o", "n", "f", "i", "g">> :> "config" ) @@
  ( <<".", "p", "r", "o", "p", "e", "r", "t", "i", "e", "s">>
      :> "properties" ) @@
  ( <<".", "i", "n", "i">> :> "ini" )

\* typeMap[extension] || 'unknown'
getFileType(filePath) ==
  LET extension == toLowerCase(extname(filePath))
  IN IF extension \in DOMAIN typeMap THEN typeMap[extension] ELSE "unknown"

\* content.match(re) with the g flag, mapped to label + match: the texts
\* matched in the lines of the content, in order
RECURSIVE Matches(_, _, _)
Matches(content, matched, label) ==
  IF content = <<>> THEN <<>>
  ELSE (IF Head(content) \in DOMAIN matched
        THEN <<<<label, matched[Head(content)]>>>>
        ELSE <<>>) \o Matches(Tail(content), matched, label)

\* [...new Set(list)]: the first of equal elements stays
RECURSIVE Unique(_)
Unique(list) ==
  IF list = <<>> THEN <<>>
  ELSE LET front == Unique(SubSeq(list, 1, Len(list) - 1))
           last == list[Len(list)]
       IN IF \E i \in 1..Len(front) : front[i] = last
          THEN front ELSE Append(front, last)

extractJavaScriptPatterns(content) ==
  Matches(content, LineFunction :> "function f", "Function: ")
  \o Matches(content, LineConsole :> "console.log(1)", "Log Statement: ")

extractPythonPatterns(content) ==
  Matches(content, LineDef :> "def f(", "Function: ")

\* the expression for method definitions starts with optional white
\* space, so a match in a line after the first takes the line break with it
RECURSIVE extractJavaPatterns_from(_, _)
extractJavaPatterns_from(content, i) ==
  IF i > Len(content) THEN <<>>
  ELSE (CASE content[i] = LineFunction ->
               <<<<"Method: ",
                   IF i > 1 THEN "\nfunction f(" ELSE "function f(">>>>
          [] content[i] = LineDef ->
               <<<<"Method: ", IF i > 1 THEN "\ndef f(" ELSE "def f(">>>>
          [] OTHER -> <<>>)
       \o extractJavaPatterns_from(content, i + 1)

extractJavaPatterns(content) == extractJavaPatterns_from(content, 1)

\* JSON.parse(content) gives an object for the one line of JSON text and
\* throws for everything else
extractJsonPatterns(content) ==
  IF content = <<LineJson>> THEN <<<<"JSON Key: ", "k">>>> ELSE <<>>

extractLogPatterns(content) ==
  Unique(Matches(content, LineLog :> "ISO Date", "Log Format: ")
         \o Matches(content, LineLog :> "Bracketed Level", "Log Format: "))

\* extractPatterns with the patterns of JavaScript as the default case
extractPatterns_DefaultCase(content, fileType) ==
  CASE fileType \in {"javascript", "typescript"} ->
         extractJavaScriptPatterns(content)
    [] fileType = "python" -> extractPythonPatterns(content)
    [] fileType = "java" -> extractJavaPatterns(content)
    [] fileType = "json" -> extractJsonPatterns(content)
    [] fileType = "log" -> extractLogPatterns(content)
    [] OTHER -> extractJavaScriptPatterns(content)

extractPatterns(content, fileType) ==
  CASE fileType \in {"javascript", "typescript"} ->
         extractJavaScriptPatterns(content)
    [] fileType = "python" -> extractPythonPatterns(content)
    [] fileType = "java" -> extractJavaPatterns(content)
    [] fileType = "json" -> extractJsonPatterns(content)
    [] fileType = "log" -> extractLogPatterns(content)
    [] OTHER -> <<>>

\* the tests of logFormatPatterns on the whole content, for every file type
extractLogFormats(content, fileType) ==
  IF \E i \in 1..Len(content) : content[i] = LineConsole
  THEN <<<<"Logging Framework: ",
           "console\\.log|console\\.error|console\\.warn">>>>
  ELSE <<>>

\* csvLines[0].split(',').map(h => h.trim().replace(/['"]/g, ''))
csvHeaders(line) ==
  CASE line = LineCsv -> <<"a", "b">>
    [] line = LineProperty -> <<"k: v">>
    [] line = LineJson -> <<"{k: 1}">>
    [] OTHER -> <<line>>

extractDataFields(content, fileType) ==
  CASE fileType = "json" ->
         IF content = <<LineJson>> THEN <<<<"", "k">>>> ELSE <<>>
    [] fileType = "csv" ->
         IF content # <<>>
         THEN [i \in 1..Len(csvHeaders(content[1])) |->
                 <<"CSV Field: ", csvHeaders(content[1])[i]>>]
         ELSE <<>>
    [] fileType \in {"javascript", "typescript"} ->
         Matches(content, LineProperty :> "k '", "Object Property: ")
    [] OTHER -> <<>>

extractImports(content, fileType) ==
  CASE fileType = "python" -> Matches(content, LineImport :> "import os", "")
    [] OTHER -> <<>>

analyzeFile(filePath, content) ==
  [filePath |-> filePath,
   fileType |-> getFileType(filePath),
   content |-> content,
   patterns |-> extractPatterns(content, getFileType(filePath)),
   logFormats |-> extractLogFormats(content, getFileType(filePath)),
   dataFields |-> extractDataFields(content, getFileType(filePath)),
   imports |-> extractImports(content, getFileType(filePath))]

\* ------------------------------------------------------------------------
\* SpecAnalyze: one call of analyzeFile on any path and content
\* ------------------------------------------------------------------------
AnalyzePaths ==
  { <<"a", ".", "j", "s">>, <<"a", ".", "J", "S">>, <<"a", ".", "t", "s">>,
    <<"a", ".", "p", "y">>, <<"a", ".", "j", "a", "v", "a">>,
    <<"a", ".", "j", "s", "o", "n">>, <<"a", ".", "c", "s", "v">>,
    <<"a", ".", "l", "o", "g">>, <<"a", ".", "t", "x", "t">>,
    <<"u", ".", "x", "y", "z">>, <<"a">>, <<".", "j", "s">>,
    <<"j", "s", ".", "d", "/", "a">>, <<"a", ".", "j", "s", ".", "x">> }

InitAnalyze ==
  /\ pc = "analyze"
  /\ tool = "analyzeFile"
  /\ \E filePath \in AnalyzePaths :
     \E content \in SeqsUpTo(ContentLines, MaxLines) :
       params = [filePath |-> filePath, content |-> content]
  /\ proc = ProcOk
  /\ ret = Pending
  /\ contextFiles = <<>>
  /\ InitRequest
  /\ InitEnv

AnalyzeFile ==
  /\ pc = "analyze"
  /\ ret = Pending
  /\ ret' = [raised |-> FALSE,
             result |-> analyzeFile(params.filePath, params.content)]
  /\ UNCHANGED <<tool, params, proc, pc>>
  /\ UNCHANGED reqVars
  /\ UNCHANGED envVars

NextAnalyze == AnalyzeFile

SpecAnalyze == InitAnalyze /\ [][NextAnalyze]_vars

\* ------------------------------------------------------------------------
\* SpecPair: two requests in flight on the one agent of the router.  One of
\* them runs at a time (one thread); at an await it is suspended with its
\* locals and the other one is resumed.
\* ------------------------------------------------------------------------
\* context_files of the requests that run in pairs
PairContextFiles == {<<>>, <<<<"a", ".", "t">>>>, <<<<"m">>>>}

\* the locals with toolCalls kept in one place for all requests
Locals_SharedToolCalls ==
  [pc |-> pc, contextFiles |-> contextFiles, ci |-> ci,
   analysisResults |-> analysisResults,
   toolDecisionResponse |-> toolDecisionResponse, decision |-> decision,
   ti |-> ti, executed |-> executed,
   additionalContext |-> additionalContext, calls |-> calls,
   modelCalls |-> modelCalls, finalText |-> finalText,
   response |-> response, inFlight |-> inFlight, results |-> results]

\* what a suspended call of generateQuery keeps: its position and the
\* locals of generateQuery, analyzeContextFiles and runQueryGeneration
Locals ==
  [pc |-> pc, contextFiles |-> contextFiles, ci |-> ci,
   analysisResults |-> analysisResults,
   toolDecisionResponse |-> toolDecisionResponse, decision |-> decision,
   ti |-> ti, executed |-> executed, toolCalls |-> toolCalls,
   additionalContext |-> additionalContext, calls |-> calls,
   modelCalls |-> modelCalls, finalText |-> finalText,
   response |-> response, inFlight |-> inFlight, results |-> results]

\* the locals of a call of generateQuery that has not run yet
FreshLocals(files) ==
  [pc |-> "ContextBuild", contextFiles |-> files, ci |-> 1,
   analysisResults |-> <<>>, toolDecisionResponse |-> NoDecision,
   decision |-> <<>>, ti |-> 1, executed |-> <<>>, toolCalls |-> <<>>,
   additionalContext |-> <<>>, calls |-> <<>>, modelCalls |-> <<>>,
   finalText |-> NoText, response |-> NoResponse, inFlight |-> <<>>,
   results |-> <<>>]

InitPair ==
  /\ pc = "ContextBuild"
  /\ contextFiles \in PairContextFiles
  /\ tool = "none"
  /\ params = Undefined
  /\ proc = ProcOk
  /\ ret = Pending
  /\ InitRequest
  /\ registry = tools
  /\ lookups = <<>>
  /\ parked \in {FreshLocals(files) : files \in PairContextFiles}

\* what the resumed request finds in a variable: what it kept, if it kept it
Resumed(name, current) ==
  IF name \in DOMAIN parked THEN parked[name] ELSE current

\* the running request is suspended at an await, the other one is resumed
Yield ==
  /\ parked # NoPeer
  /\ parked.pc # "Done"
  /\ parked' = Locals
  /\ pc' = Resumed("pc", pc)
  /\ contextFiles' = Resumed("contextFiles", contextFiles)
  /\ ci' = Resumed("ci", ci)
  /\ analysisResults' = Resumed("analysisResults", analysisResults)
  /\ toolDecisionResponse' =
       Resumed("toolDecisionResponse", toolDecisionResponse)
  /\ decision' = Resumed("decision", decision)
  /\ ti' = Resumed("ti", ti)
  /\ executed' = Resumed("executed", executed)
  /\ toolCalls' = Resumed("toolCalls", toolCalls)
  /\ additionalContext' = Resumed("additionalContext", additionalContext)
  /\ calls' = Resumed("calls", calls)
  /\ modelCalls' = Resumed("modelCalls", modelCalls)
  /\ finalText' = Resumed("finalText", finalText)
  /\ response' = Resumed("response", response)
  /\ inFlight' = Resumed("inFlight", inFlight)
  /\ results' = Resumed("results", results)
  /\ UNCHANGED <<registry, lookups>>
  /\ UNCHANGED toolVars

NextPair ==
  \/ AnalyzeContextFile
  \/ IssueToolSelection
  \/ ToolSelectionReturns
  \/ ModelCallFails
  \/ DispatchTool
  \/ ToolReturns
  \/ IssueFinalGeneration
  \/ FinalReturns
  \/ Yield

SpecPair == InitPair /\ [][NextPair]_vars

\* every model call and every tool call awaited settles, and the code
\* between two awaits runs to the next await
SpecLive == Init /\ [][Next]_vars /\ WF_vars(Next)

\* ------------------------------------------------------------------------
\* Properties.  C1 to C6 are about one call of a tool (SpecTools), C7 to
\* C10 about one request (Spec).
\* ------------------------------------------------------------------------
ToolDone == pc = "tool" /\ ret # Pending

PathTools == {"read_file", "file_system_grep", "folder_file_indexing"}
PathKey(t) == IF t = "read_file" THEN "filepath" ELSE "path"

HasStringPath ==
  /\ tool \in PathTools
  /\ CanRead(params)
  /\ IsString(Prop(params, PathKey(tool)))

InputPath == Prop(params, PathKey(tool)).v

\* the call read a file, listed a directory or started a process
Touched(r) ==
  \E i \in 1..Len(r.calls) : r.calls[i].op \in {"readFile", "readdir", "exec"}

Accepted(r) == (~r.raised /\ r.result.success) \/ Touched(r)

\* a root itself, or beneath it at a directory boundary
InsideRoot(abs) ==
  \E root \in {resolve(cwd), resolve(sandboxDirectory)} :
     abs = root \/ StartsWith(abs, root \o <<"/">>)

\* C1: a path-validating tool accepts a path only if its resolved form is a
\* configured root or lies beneath one at a directory boundary; nothing
\* outside (a sibling "<root>x/..." included) is read, listed or searched.
C1_SandboxContainment ==
  (ToolDone /\ HasStringPath /\ Accepted(ret)) => InsideRoot(resolve(InputPath))

\* C2: an input path that contains ".." is rejected by every path-validating
\* tool, also when it resolves to a file inside a root, and is never opened.
C2_TraversalRejected ==
  (ToolDone /\ HasStringPath /\ Includes(InputPath, <<".", ".">>))
    => ~Accepted(ret)

HasStringCommand ==
  /\ tool = "terminal_command"
  /\ CanRead(params)
  /\ IsString(Prop(params, "command"))

InputCommand == Prop(params, "command").v

\* the deny list as the contract words it, on the command as given
DenyListed(c) ==
  \/ \E i \in 1..Len(c) :
        c[i] \in {";", "&", "|", Backquote, "$", "(", ")", "{", "}", "[", "]"}
  \/ Includes(c, <<".", ".">>)
  \/ Includes(c, <<"/", "d", "e", "v", "/">>)
  \/ Includes(c, <<"/", "p", "r", "o", "c", "/">>)
  \/ Includes(c, <<"/", "s", "y", "s", "/">>)
  \/ \E i \in 1..Len(c) : \E j \in (i + 3)..Len(c) :
        /\ At(c, i, <<"r", "m">>)
        /\ \A k \in (i + 2)..(j - 1) : IsSpace(c[k])
        /\ At(c, j, <<"-", "r", "f">>)
  \/ Includes(c, <<"s", "u", "d", "o">>)
  \/ Includes(c, <<"s", "u">>)
  \/ Includes(c, <<"c", "h", "m", "o", "d">>)
  \/ Includes(c, <<"c", "h", "o", "w", "n">>)
  \/ Includes(c, <<"w", "g", "e", "t">>)
  \/ \E i \in 1..Len(c) : \E j \in (i + 4)..Len(c) :
        /\ At(c, i, <<"c", "u", "r", "l">>)
        /\ \A k \in (i + 4)..(j - 1) : c[k] # "\n"
        /\ At(c, j, <<"-", "o">>)
  \/ Includes(c, <<">", ">">>)
  \/ \E i \in 1..Len(c) : \E j \in (i + 1)..Len(c) :
        /\ c[i] = ">"
        /\ \A k \in (i + 1)..(j - 1) : IsSpace(c[k])
        /\ c[j] = "/"

\* the first run of characters that are not white space
LeadingToken(c) ==
  LET t == TrimStart(c)
      ends == {i \in 1..Len(t) : IsSpace(t[i])}
  IN IF ends = {} THEN t
     ELSE SubSeq(t, 1, (CHOOSE i \in ends : \A j \in ends : i <= j) - 1)

Spawned(r) == \E i \in 1..Len(r.calls) : r.calls[i].op = "exec"

Rejected(r) == ~r.raised /\ ~r.result.success /\ ~Spawned(r)

\* C3: a command that contains a deny-listed character or pattern is
\* rejected, also when its leading token is allow-listed, and no process is
\* spawned.
C3_DenyListRejects ==
  (ToolDone /\ HasStringCommand /\ DenyListed(InputCommand)) => Rejected(ret)

C3_Witness ==
  /\ ToolDone /\ HasStringCommand
  /\ DenyListed(InputCommand)
  /\ LeadingToken(InputCommand) \in allowedCommands
  /\ ret.result.error = "Command contains dangerous patterns"

\* C4: a command whose leading token is not allow-listed is rejected even
\* if no deny pattern matches, and a process is spawned only for a command
\* that passes both the deny list and the allow list.
C4_AllowListRejects ==
  (ToolDone /\ HasStringCommand) =>
    /\ LeadingToken(InputCommand) \notin allowedCommands => Rejected(ret)
    /\ Spawned(ret) => /\ ~DenyListed(InputCommand)
                       /\ LeadingToken(InputCommand) \in allowedCommands

C4_Witness ==
  /\ ToolDone /\ HasStringCommand
  /\ ~DenyListed(InputCommand)
  /\ LeadingToken(InputCommand) # <<>>
  /\ LeadingToken(InputCommand) \notin allowedCommands
  /\ ret.result.error = "Command is not in the allowed list"

\* C5: execute of each of the five tools never raises, whatever the
\* parameters: a failure comes back as a ToolResult with success = false
\* and an error text.
C5_ExecuteNeverRaises ==
  ToolDone =>
    /\ ~ret.raised
    /\ ret.result.success \in BOOLEAN
    /\ ~ret.result.success =>
         /\ "error" \in DOMAIN ret.result
         /\ ret.result.error # ""

C5_Witness ==
  /\ ToolDone
  /\ params \in {Undefined, Null}
  /\ ~ret.raised
  /\ ~ret.result.success
  /\ ret.result.error = "TypeError"

\* C6: reading an existing regular file larger than the configured maximum
\* fails with the size reason and reads nothing, wherever the file is and
\* whatever its extension.
TooLarge(abs) ==
  Exists(abs) /\ FS[abs].kind = "file" /\ FS[abs].size > maxFileSize

C6_TooLargeNeverRead ==
  (ToolDone /\ tool = "read_file" /\ HasStringPath
     /\ TooLarge(resolve(InputPath)))
    => /\ ~ret.raised
       /\ ~ret.result.success
       /\ ret.result.error = "File size exceeds maximum allowed size"
       /\ \A i \in 1..Len(ret.calls) : ret.calls[i].op # "readFile"

C6_Witness ==
  /\ ToolDone /\ tool = "read_file" /\ HasStringPath
  /\ TooLarge(resolve(InputPath))
  /\ ~InsideRoot(resolve(InputPath))
  /\ extname(resolve(InputPath)) \notin allowedExtensions
  /\ ret.result.error = "File size exceeds maximum allowed size"

\* the tool-selection answer has the expected structure: JSON text for an
\* object whose "tools" is an array
WellFormedDecision(content) ==
  /\ content.json
  /\ content.value.t = "object"
  /\ "tools" \in DOMAIN content.value.v
  /\ content.value.v["tools"].t = "array"

DecisionKnown == toolDecisionResponse # NoDecision

FinalIssued == Len(modelCalls) = 2 /\ modelCalls[2].call = "final"

HasContextSection(prompt) ==
  \E i \in 1..Len(prompt) : prompt[i] = "\n\nAdditional context from tools:"

ModelFailed ==
  /\ response.status = "error"
  /\ response.error_message \in ModelErrors

\* C7: if the tool-selection answer is not JSON, or its "tools" is not an
\* array, no tool is executed, no ToolCall is recorded, the final model call
\* is issued with an empty additional context, and the request does not fail
\* for this reason (only if a model call fails).
C7_UnparsableDecisionMeansNoTools ==
  (DecisionKnown /\ ~WellFormedDecision(toolDecisionResponse)) =>
    /\ executed = <<>>
    /\ toolCalls = <<>>
    /\ additionalContext = <<>>
    /\ \A i \in 1..Len(calls) : calls[i].op # "exec"
    /\ pc \in {"FinalGeneration", "AwaitFinal", "Done"}
    /\ pc = "AwaitFinal" => FinalIssued /\ ~HasContextSection(modelCalls[2].prompt)
    /\ pc = "Done" =>
         /\ FinalIssued
         /\ ~HasContextSection(modelCalls[2].prompt)
         /\ response.status = "success" \/ ModelFailed
         /\ response.status = "success" => "tool_calls" \notin DOMAIN response

C7_Witness ==
  /\ DecisionKnown
  /\ ~toolDecisionResponse.json
  /\ pc = "Done"
  /\ FinalIssued
  /\ response.status = "success"

RmRfSpec == ToolSpec("terminal_command", Obj([command |-> Str(CmdRmRf)]))
RmRfCall == [tool_name |-> "terminal_command",
             parameters |-> Obj([command |-> Str(CmdRmRf)]),
             output |-> <<>>]

DispatchOver == pc \in {"FinalGeneration", "AwaitFinal", "Done"}

\* C8 (scenario C): a decision that asks for terminal_command with
\* "rm -rf /" spawns no process, still records a ToolCall for it, and the
\* final prompt carries none of its output.
C8_ScenarioC ==
  /\ \A i \in 1..Len(calls) :
        calls[i].op = "exec" => calls[i].cmd # CmdRmRf
  /\ \A i \in 1..Len(executed) :
        executed[i] = [tool |-> "terminal_command",
                       parameters |-> Obj([command |-> Str(CmdRmRf)])]
          => i <= Len(toolCalls) /\ toolCalls[i] = RmRfCall
  /\ (DecisionKnown /\ decision = <<RmRfSpec>> /\ DispatchOver) =>
        /\ executed = <<[tool |-> "terminal_command",
                         parameters |-> Obj([command |-> Str(CmdRmRf)])]>>
        /\ toolCalls = <<RmRfCall>>
        /\ \A i \in 1..Len(calls) : calls[i].op # "exec"
        /\ additionalContext = <<>>
        /\ pc \in {"AwaitFinal", "Done"} =>
             FinalIssued /\ ~HasContextSection(modelCalls[2].prompt)
        /\ response.status = "success" => response.tool_calls = <<RmRfCall>>

C8_Witness ==
  /\ decision = <<RmRfSpec>>
  /\ pc = "Done"
  /\ response.status = "success"
  /\ response.tool_calls = <<RmRfCall>>

\* scenario A: no context files, and the tool-selection answer is "none"
ScenarioA ==
  /\ contextFiles = <<>>
  /\ toolDecisionResponse \in {Json(Obj([tools |-> Name("none")])),
                               Json(Name("none"))}

FinalReturned == finalText # NoText

HasText(text) == \E i \in 1..Len(text) : ~IsSpace(text[i])

\* C9 (scenario A), as claimed: prompt only, no context files, tool
\* selection answers "none", both model calls return: status success, a
\* non-empty query and no tool_calls, whatever the final answer says.
C9_ScenarioA_AnyText ==
  (ScenarioA /\ FinalReturned) =>
    /\ pc = "Done"
    /\ response.status = "success"
    /\ response.query # <<>>
    /\ "tool_calls" \notin DOMAIN response

\* C9, amended: in scenario A, if both model calls return, the response has
\* status success and no tool_calls, and its query is non-empty exactly when
\* the final answer contains a character that is not white space.
C9_ScenarioA ==
  (ScenarioA /\ FinalReturned) =>
    /\ pc = "Done"
    /\ response.status = "success"
    /\ response.query # <<>> <=> HasText(finalText)
    /\ "tool_calls" \notin DOMAIN response

C9_Witness ==
  /\ ScenarioA /\ FinalReturned
  /\ FirstIndex(finalText, "QUERY:") = 0
  /\ HasText(finalText)
  /\ response.status = "success"
  /\ response.query = Trim(finalText)

\* what the sandboxed read of each context file does, in the order given
RECURSIVE ContextReads(_)
ContextReads(files) ==
  IF files = <<>> THEN <<>>
  ELSE ReadFile_execute(Obj([filepath |-> Str(Head(files))])).calls
       \o ContextReads(Tail(files))

Readable(filePath) ==
  ReadFile_execute(Obj([filepath |-> Str(filePath)])).result.success

RECURSIVE IsSubsequence(_, _)
IsSubsequence(a, b) ==
  IF a = <<>> THEN TRUE
  ELSE IF b = <<>> THEN FALSE
  ELSE IF Head(a) = Head(b) THEN IsSubsequence(Tail(a), Tail(b))
  ELSE IsSubsequence(a, Tail(b))

\* C10: a context file that cannot be read or analyzed is skipped and never
\* aborts the request: every context file is still processed, in order, the
\* model calls are still made, and the request succeeds if they succeed.
C10_BadContextFileSkipped ==
  /\ pc = "ContextBuild" =>
       /\ response = NoResponse
       /\ calls = ContextReads(SubSeq(contextFiles, 1, ci - 1))
  /\ pc \notin {"ContextBuild", "tool"} =>
       /\ ci = Len(contextFiles) + 1
       /\ LET reads == ContextReads(contextFiles)
          IN SubSeq(calls, 1, Len(reads)) = reads
       /\ Len(modelCalls) >= 1 /\ modelCalls[1].call = "tool_selection"
  /\ IsSubsequence([i \in 1..Len(analysisResults) |-> analysisResults[i].filePath],
                   contextFiles)
  /\ \A i \in 1..Len(analysisResults) : Readable(analysisResults[i].filePath)
  /\ pc = "Done" => response.status = "success" \/ ModelFailed
  /\ FinalReturned => pc = "Done" /\ response.status = "success"

C10_Witness ==
  /\ pc = "Done"
  /\ Len(contextFiles) = 2
  /\ ~Readable(contextFiles[1])
  /\ Readable(contextFiles[2])
  /\ Len(analysisResults) = 1
  /\ analysisResults[1].filePath = contextFiles[2]
  /\ response.status = "success"


\* C11: every response has status success or error; an error response
\* carries only its message (no query, explanation or tool_calls, even when
\* tools had run before the failure); a success response carries both query
\* and explanation.
C11_ResponseShape ==
  /\ response = NoResponse \/ response.status \in {"success", "error"}
  /\ pc = "Done" => response # NoResponse
  /\ response.status = "error" =>
       DOMAIN response = {"status", "error_message"}
  /\ response.status = "success" =>
       /\ {"query", "explanation"} \subseteq DOMAIN response
       /\ DOMAIN response \subseteq
            {"status", "query", "explanation", "tool_calls"}

C11_Witness ==
  /\ pc = "Done"
  /\ response.status = "error"
  /\ \E i \in 1..Len(toolCalls) : toolCalls[i].output # <<>>
  /\ additionalContext # <<>>

AwaitingModel == pc \in {"AwaitToolDecision", "AwaitFinal"}

\* the tool awaited settles with a failure: a ToolCall is recorded and
\* nothing is added to the context
ToolFailureStep ==
  /\ pc = "AwaitTool"
  /\ Len(toolCalls') = Len(toolCalls) + 1
  /\ additionalContext' = additionalContext

\* C12: a failure of either model call ends the request with an Error
\* response; a failure of a tool never does: the loop goes on with the next
\* tool and the final model call is still issued.
C12_OnlyModelFailuresAbort ==
  /\ [](response.status = "error" => ModelFailed)
  /\ []((pc = "Done" /\ response.status = "success") => FinalIssued)
  /\ [][(AwaitingModel /\ pc' = "Done" /\ finalText' = NoText) =>
          /\ response'.status = "error"
          /\ modelCalls' = modelCalls]_vars
  /\ [][ToolFailureStep =>
          /\ response' = NoResponse
          /\ ti' = ti + 1
          /\ pc' = IF ti < Len(decision) THEN "ToolDispatch"
                   ELSE "FinalGeneration"]_vars
  /\ [](pc = "FinalGeneration" => ENABLED IssueFinalGeneration)

C12_Witness ==
  /\ pc = "Done"
  /\ response.status = "success"
  /\ Len(toolCalls) = 2
  /\ toolCalls[1].output = <<>>
  /\ toolCalls[2].output # <<>>
  /\ FinalIssued /\ HasContextSection(modelCalls[2].prompt)

\* C13, as claimed: the body of an Error response is the same whatever the
\* message of the exception that ended the request.
C13_ErrorMessageGeneric ==
  response.status = "error" =>
    \A m \in ModelErrors : response = errorResponse(m)

Parsed == pc = "parse" /\ ret # Pending

HasLabel(text, label) == FirstIndex(text, label) # 0

\* the labelled sections of an answer that has the QUERY label before the
\* EXPLANATION label, without the white space around them
QuerySection(text) ==
  Trim(SubSeq(text, FirstIndex(text, "QUERY:") + 1,
              FirstIndex(text, "EXPLANATION:") - 1))
ExplanationSection(text) ==
  Trim(SubSeq(text, FirstIndex(text, "EXPLANATION:") + 1, Len(text)))

\* C14, as claimed: without the EXPLANATION label the explanation is the
\* marker 'No explanation provided'; without the QUERY label the query is
\* the whole answer, trimmed; with both labels (QUERY first) the query is the
\* text between the two labels and the explanation the text after the
\* EXPLANATION label.
C14_ResponseAssembly ==
  Parsed =>
    /\ ~HasLabel(finalText, "EXPLANATION:") =>
         ret.result.explanation = <<"No explanation provided">>
    /\ ~HasLabel(finalText, "QUERY:") =>
         ret.result.query = Trim(finalText)
    /\ (/\ HasLabel(finalText, "QUERY:")
        /\ HasLabel(finalText, "EXPLANATION:")
        /\ FirstIndex(finalText, "QUERY:")
             < FirstIndex(finalText, "EXPLANATION:")) =>
         /\ ret.result.query = QuerySection(finalText)
         /\ ret.result.explanation = ExplanationSection(finalText)

\* C15: every ToolResult a tool hands back has, with success=false, an
\* empty output and an error text, and with success=true no error field.
C15_ToolResultShape ==
  (ToolDone /\ ~ret.raised) =>
    /\ DOMAIN ret.result \subseteq {"success", "output", "error"}
    /\ ~ret.result.success =>
         /\ ret.result.output = <<>>
         /\ "error" \in DOMAIN ret.result
         /\ ret.result.error # ""
    /\ ret.result.success => "error" \notin DOMAIN ret.result

C15_Witness ==
  /\ ToolDone /\ ~ret.raised
  /\ tool = "terminal_command"
  /\ ~ret.result.success
  /\ \E i \in 1..Len(ret.calls) : ret.calls[i].op = "exec"

Terminal == pc = "Done" /\ response.status \in {"success", "error"}

\* C16: a request whose model calls and tool executions all settle ends in
\* exactly one of the states Success and Error with exactly one response:
\* it is never stuck before that, and the response, once there, stays.
C16_ReachesOneTerminalState ==
  /\ <>Terminal
  /\ [](pc = "Done" <=> response # NoResponse)
  /\ [](pc = "Done" => Terminal)
  /\ [][response # NoResponse => response' = response]_vars

C16_Witness ==
  /\ Terminal
  /\ response.status = "success"
  /\ analysisResults # <<>>
  /\ Len(toolCalls) = 2

\* the names under which a Map holds something
Keys(map) == {map[i].key : i \in 1..Len(map)}

\* C17: the registry maps exactly the five tool names to their tools: a
\* lookup by one of them gives the tool of that name, a lookup by anything
\* else gives nothing, the enumerations give exactly the five, and no call
\* changes what the registry holds.
C17_RegistryMapsFiveNames ==
  /\ Keys(registry) = ToolNames
  /\ Len(registry) = 5
  /\ \A i \in 1..Len(registry) : registry[i].value.name = registry[i].key
  /\ \A i \in 1..Len(lookups) :
       /\ lookups[i].op = "getTool" =>
            IF IsString(lookups[i].name) /\ lookups[i].name.v \in ToolNames
            THEN /\ lookups[i].result # NoTool
                 /\ lookups[i].result.name = lookups[i].name.v
            ELSE lookups[i].result = NoTool
       /\ lookups[i].op = "getAllTools" =>
            /\ Len(lookups[i].result) = 5
            /\ {lookups[i].result[k].name : k \in 1..5} = ToolNames
       /\ lookups[i].op = "getToolNames" =>
            /\ Len(lookups[i].result) = 5
            /\ {lookups[i].result[k] : k \in 1..5} = ToolNames

C17_Witness ==
  /\ Len(lookups) = 2
  /\ lookups[1].op = "getTool" /\ lookups[1].result # NoTool
  /\ lookups[2].op = "getTool" /\ lookups[2].result = NoTool

\* the variables of the running request, as one record
Running ==
  [pc |-> pc, contextFiles |-> contextFiles, ci |-> ci,
   analysisResults |-> analysisResults, decision |-> decision,
   executed |-> executed, toolCalls |-> toolCalls,
   additionalContext |-> additionalContext, modelCalls |-> modelCalls,
   finalText |-> finalText, response |-> response]

\* the same for the suspended request, as it will find them when resumed
Suspended ==
  [name \in DOMAIN Running |->
     IF name \in DOMAIN parked THEN parked[name] ELSE Running[name]]

\* the tool and parameters of the elements of a decision that name a
\* registered tool, in decision order
RECURSIVE Resolving(_)
Resolving(specs) ==
  IF specs = <<>> THEN <<>>
  ELSE (IF CanRead(Head(specs)) /\ getTool(Prop(Head(specs), "name")) # NoTool
        THEN <<[tool |-> Prop(Head(specs), "name").v,
                parameters |-> Prop(Head(specs), "parameters")]>>
        ELSE <<>>) \o Resolving(Tail(specs))

\* the additional-context buffers that can be built from a ToolCall list
RECURSIVE ContextsFrom(_)
ContextsFrom(list) ==
  IF list = <<>> THEN {<<>>}
  ELSE LET rest == ContextsFrom(Tail(list))
       IN rest \cup {<<"\n\n--- ", Head(list).tool_name, " Output ---\n">>
                       \o Head(list).output \o r : r \in rest}

\* the response a request assembles from its own final text and ToolCalls
AssembledFrom(text, list) ==
  LET parsed == parseQueryResponse(text)
      result == [status |-> "success", query |-> parsed.query,
                 explanation |-> parsed.explanation]
  IN IF Len(list) > 0 THEN result @@ [tool_calls |-> list] ELSE result

\* everything a request holds comes from its own input and its own answers
OwnAnswersOnly(L) ==
  /\ IsSubsequence([i \in 1..Len(L.analysisResults) |->
                      L.analysisResults[i].filePath], L.contextFiles)
  /\ L.executed = SubSeq(Resolving(L.decision), 1, Len(L.executed))
  /\ IsSubsequence([i \in 1..Len(L.toolCalls) |->
                      [tool |-> L.toolCalls[i].tool_name,
                       parameters |-> L.toolCalls[i].parameters]],
                   L.executed)
  /\ L.additionalContext \in ContextsFrom(L.toolCalls)
  /\ \A i \in 1..Len(L.modelCalls) :
       /\ L.modelCalls[i].analysis = L.analysisResults
       /\ L.modelCalls[i].call = "final" =>
            L.modelCalls[i].prompt = buildFinalQueryPrompt(L.additionalContext)
  /\ L.response.status = "success" =>
       L.response = AssembledFrom(L.finalText, L.toolCalls)
  /\ L.response.status = "error" =>
       \E m \in ModelErrors : L.response = errorResponse(m)

\* C18: with two requests in flight and interleaved at their awaits, the
\* ToolCall list, the additional context and the response of each request
\* are built from that request's own input, own decision, own tool results
\* and own final text, as when it runs alone, and the registry stays as
\* the constructor filled it.
C18_RequestsIndependent ==
  /\ registry = tools
  /\ parked # NoPeer
  /\ OwnAnswersOnly(Running)
  /\ OwnAnswersOnly(Suspended)

\* both requests have a tool in flight at once, one of them after having
\* recorded a ToolCall, the other with none
C18_Witness ==
  /\ parked # NoPeer
  /\ pc = "AwaitTool"
  /\ parked.pc = "AwaitTool"
  /\ toolCalls # <<>>
  /\ parked.toolCalls = <<>>
  /\ parked.decision # decision

\* the tool and parameters of the ToolCalls recorded, in order
Recorded ==
  [i \in 1..Len(toolCalls) |-> [tool |-> toolCalls[i].tool_name,
                                parameters |-> toolCalls[i].parameters]]

\* C19: once the loop over the decision list is over, the ToolCall list
\* holds one ToolCall for every element of the list that names a
\* registered tool, in decision order, whatever the other elements are
\* (null, without a name, naming an unknown tool) and whether the tools
\* succeeded or failed.
C19_OneToolCallPerResolvingSpec ==
  pc \in {"FinalGeneration", "AwaitFinal"} => Recorded = Resolving(decision)

\* the decision elements started so far, in the order they were started:
\* those that have returned, then the one in flight
Started ==
  executed \o [i \in 1..Len(inFlight) |->
                 [tool |-> inFlight[i].tool_name,
                  parameters |-> inFlight[i].parameters]]

\* C20: within a request at most one tool execution is in progress; the
\* loop stands still at the element in flight until its result is back,
\* and the tools started are the resolving elements of the decision list,
\* in the order of the list.
C20_DispatchSequential ==
  /\ Len(inFlight) <= 1
  /\ inFlight # <<>> <=> pc = "AwaitTool"
  /\ \A i \in 1..Len(inFlight) :
       /\ inFlight[i].index = ti
       /\ inFlight[i].tool_name = Prop(decision[ti], "name").v
       /\ inFlight[i].parameters = Prop(decision[ti], "parameters")
  /\ Started = SubSeq(Resolving(decision), 1, Len(Started))
  /\ Len(toolCalls) <= Len(executed)

\* the second tool of the list is in flight after the first one returned
C20_Witness ==
  /\ pc = "AwaitTool"
  /\ Len(inFlight) = 1
  /\ inFlight[1].index = 2
  /\ Len(executed) = 1
  /\ Len(toolCalls) = 1

\* C21: the model calls of a request come in a fixed order.  The
\* tool-selection call is issued once every context file has been gone
\* through; no tool is started before it has returned; the final call is
\* issued when no tool is in flight and no tool runs after it; a request
\* never makes more than two model calls and a success response has made
\* exactly two, tool selection then final generation.
C21_ModelCallOrder ==
  /\ [](modelCalls # <<>> =>
          /\ pc # "ContextBuild"
          /\ ci = Len(contextFiles) + 1
          /\ modelCalls[1].call = "tool_selection")
  /\ [](pc = "AwaitToolDecision" =>
          /\ ~DecisionKnown
          /\ executed = <<>> /\ inFlight = <<>> /\ toolCalls = <<>>)
  /\ []((executed # <<>> \/ inFlight # <<>>) =>
          DecisionKnown /\ modelCalls # <<>>)
  /\ [](Len(modelCalls) <= 2)
  /\ [](Len(modelCalls) = 2 =>
          /\ modelCalls[2].call = "final"
          /\ inFlight = <<>>
          /\ pc \in {"AwaitFinal", "Done"})
  /\ [](response.status = "success" => Len(modelCalls) = 2)
  /\ [][Len(modelCalls) = 2 =>
          /\ executed' = executed
          /\ toolCalls' = toolCalls
          /\ calls' = calls
          /\ modelCalls' = modelCalls]_vars

\* a request with a context file and two tools run has succeeded
C21_Witness ==
  /\ pc = "Done"
  /\ response.status = "success"
  /\ contextFiles # <<>>
  /\ Len(executed) = 2
  /\ Len(modelCalls) = 2

\* the labelled outputs of the tools that returned success, in the order
\* the tools returned
RECURSIVE LabelledOutputs(_, _)
LabelledOutputs(list, res) ==
  IF res = <<>> THEN <<>>
  ELSE (IF Head(res).success = TRUE
        THEN <<"\n\n--- ", Head(list).tool_name, " Output ---\n">>
             \o Head(res).output
        ELSE <<>>) \o LabelledOutputs(Tail(list), Tail(res))

\* C22: the additional-context buffer holds, in execution order and each
\* under the label of its tool, the outputs of exactly the tools that
\* returned success; the final prompt carries the buffer in a section of
\* its own when a tool succeeded and has no such section when none did.
C22_ContextHoldsSuccessfulOutputs ==
  /\ Len(results) = Len(toolCalls)
  /\ \A i \in 1..Len(results) : toolCalls[i].output = results[i].output
  /\ additionalContext = LabelledOutputs(toolCalls, results)
  /\ Len(modelCalls) = 2 =>
       /\ modelCalls[2].prompt =
            <<"Generate a Splunk query for: ", "<prompt>">>
            \o (IF \E i \in 1..Len(results) : results[i].success
                THEN <<"\n\nAdditional context from tools:">>
                     \o LabelledOutputs(toolCalls, results)
                ELSE <<>>)
            \o <<"\n\nProvide the response in the exact format:">>
       /\ HasContextSection(modelCalls[2].prompt) <=>
            \E i \in 1..Len(results) : results[i].success

\* the final call has been issued after a tool that succeeded and one that
\* failed
C22_Witness ==
  /\ pc = "AwaitFinal"
  /\ Len(results) = 2
  /\ results[1].success
  /\ ~results[2].success
  /\ HasContextSection(modelCalls[2].prompt)

\* C23: a success response has tool_calls exactly when a ToolCall was
\* recorded in the dispatch loop; it is then the non-empty list of the
\* ToolCalls in dispatch order, one per tool result and with that result's
\* output, and the reads of the context files are not in it.
C23_ToolCallsAttachedIffRecorded ==
  response.status = "success" =>
    /\ "tool_calls" \in DOMAIN response <=> toolCalls # <<>>
    /\ "tool_calls" \in DOMAIN response =>
         /\ response.tool_calls # <<>>
         /\ response.tool_calls = toolCalls
         /\ Recorded = executed
         /\ IsSubsequence(executed, Resolving(decision))
         /\ \A i \in 1..Len(toolCalls) :
              /\ toolCalls[i].output = results[i].output
              /\ toolCalls[i].tool_name # "read_file"
    /\ "tool_calls" \notin DOMAIN response =>
         \A i \in 1..Len(decision) :
           CanRead(decision[i]) => getTool(Prop(decision[i], "name")) = NoTool
             \/ \E j \in 1..(i - 1) : ~CanRead(decision[j])

\* a success whose context file was read and analyzed, with no tool run
\* and no tool_calls in the response
C23_Witness ==
  /\ response.status = "success"
  /\ analysisResults # <<>>
  /\ \E i \in 1..Len(calls) : calls[i].op = "readFile"
  /\ toolCalls = <<>>
  /\ "tool_calls" \notin DOMAIN response

\* the search ran and found no matching line: grep exits with status 1
\* and writes nothing
NoMatch == proc.code = 1 /\ proc.stdout = <<>> /\ proc.stderr = <<>>

\* C24, as claimed: a search over a valid path that finds no matching line
\* is handed back as success with the output 'No matches found', also when
\* the search process exits with its no-match status.
C24_NoMatchIsSuccess ==
  (ToolDone /\ tool = "file_system_grep" /\ Spawned(ret) /\ NoMatch) =>
    /\ ~ret.raised
    /\ ret.result.success
    /\ ret.result.output = <<"No matches found">>

\* what each character of a command line is to sh: a character of a word
\* ("data"), a backslash that quotes the next character ("escape"), a
\* double quote that opens or closes a quoted string ("quote"), or a
\* character the shell acts on ("active": a substitution, or outside a
\* quoted string a separator, a redirection or the end of the command)
RECURSIVE ShellRoles(_, _, _)
ShellRoles(line, quoted, escaped) ==
  IF line = <<>> THEN <<>>
  ELSE LET c == Head(line)
           role == IF escaped THEN "data"
                   ELSE IF c = "\\" THEN "escape"
                   ELSE IF c = "\"" THEN "quote"
                   ELSE IF c \in {"$", Backquote} THEN "active"
                   ELSE IF ~quoted /\ c \in {";", "|", "&", "\n", "<", ">",
                                             "(", ")"}
                   THEN "active"
                   ELSE "data"
       IN <<role>> \o ShellRoles(Tail(line),
                                 IF role = "quote" THEN ~quoted ELSE quoted,
                                 role = "escape")

\* in the command line built from a pattern and a path, every character of
\* the two is a character of a word and the quotes around them open and
\* close
InterpolatedAsData(sanitizedPattern, sanitizedPath) ==
  LET line == Grep_command(sanitizedPattern, sanitizedPath)
      roles == ShellRoles(line, FALSE, FALSE)
      pathLast == Len(line) - 1
      pathFirst == pathLast - Len(sanitizedPath) + 1
      patternLast == pathFirst - 4
      patternFirst == patternLast - Len(sanitizedPattern) + 1
  IN /\ \A i \in (patternFirst..patternLast) \cup (pathFirst..pathLast) :
          roles[i] \in {"data", "escape"}
     /\ \A i \in {patternFirst - 1, patternLast + 1, pathFirst - 1,
                  pathLast + 1} : roles[i] = "quote"

\* C25, as claimed: in every search invocation spawned, the escaped pattern
\* and the escaped path are data inside their double quotes: no character
\* of them ends the quoted argument or is acted on by the shell.
C25_EscapedFormsAreData ==
  (ToolDone /\ tool = "file_system_grep" /\ Spawned(ret)) =>
    /\ InterpolatedAsData(Grep_sanitizePattern(Prop(params, "pattern").v),
                          Grep_sanitizePath(Prop(params, "path").v))
    /\ \A i \in 1..Len(ret.calls) :
         ret.calls[i].op = "exec" =>
           ret.calls[i].cmd =
             Grep_command(Grep_sanitizePattern(Prop(params, "pattern").v),
                          Grep_sanitizePath(Prop(params, "path").v))

\* C26, as claimed: a process spawned by the shell command tool is given
\* an environment that holds PATH and no other variable of the server's
\* environment.
C26_OnlyPathForwarded ==
  (ToolDone /\ tool = "terminal_command") =>
    \A i \in 1..Len(ret.calls) :
      ret.calls[i].op = "exec" => ret.calls[i].env = {"PATH"}

ReadOfRegularFile ==
  /\ ToolDone /\ tool = "read_file" /\ HasStringPath
  /\ Exists(resolve(InputPath))
  /\ FS[resolve(InputPath)].kind = "file"

\* the extension of the file is one the whitelist rejects
ExtensionRejected ==
  /\ extname(resolve(InputPath)) # <<>>
  /\ extname(resolve(InputPath)) \notin allowedExtensions

NeverRead(r) == \A i \in 1..Len(r.calls) : r.calls[i].op # "readFile"

\* C28, as claimed: every file whose extension is non-empty and not in the
\* whitelist is rejected with the reason of the extension and is not read;
\* no file is rejected for its extension when the extension is empty or in
\* the whitelist.
C28_ExtensionReasonForEveryFile ==
  ReadOfRegularFile =>
    /\ ExtensionRejected =>
         /\ ~ret.raised /\ ~ret.result.success
         /\ ret.result.error = "File extension is not allowed"
         /\ NeverRead(ret)
    /\ (~ExtensionRejected /\ ~ret.raised /\ ~ret.result.success) =>
         ret.result.error # "File extension is not allowed"

\* C28: every file whose extension is non-empty and not in the whitelist
\* is rejected and is not read, with the reason of the extension when the
\* file is within the size limit and its resolved path has no ".." and no
\* "~" (the size and traversal tests come first and give their own
\* reasons); no file is rejected for its extension when the extension is
\* empty or in the whitelist.
C28_ExtensionRejected ==
  ReadOfRegularFile =>
    /\ ExtensionRejected =>
         /\ ~ret.raised /\ ~ret.result.success
         /\ NeverRead(ret)
         /\ ret.result.error =
              IF TooLarge(resolve(InputPath))
              THEN "File size exceeds maximum allowed size"
              ELSE IF hasTraversal(resolve(InputPath))
              THEN "Path traversal not allowed"
              ELSE "File extension is not allowed"
    /\ (~ExtensionRejected /\ ~ret.raised /\ ~ret.result.success) =>
         ret.result.error # "File extension is not allowed"

\* a small file inside the working directory is rejected for its extension
C28_Witness ==
  /\ ReadOfRegularFile /\ ExtensionRejected
  /\ InsideRoot(resolve(InputPath))
  /\ ~TooLarge(resolve(InputPath))
  /\ ret.result.error = "File extension is not allowed"

\* how many directories below root a path of the filesystem lies: 1 for an
\* entry of root itself
Slashes(p) == Cardinality({i \in 1..Len(p) : p[i] = "/"})
LevelsBelow(root, p) == Slashes(p) - Slashes(root)
Beneath(root) == {p \in DOMAIN FS : StartsWith(p, root \o <<"/">>)}

Count(out, token) == Cardinality({i \in 1..Len(out) : out[i] = token})

\* the directory the listing tool was asked for and has listed
ListedRoot == resolve(InputPath)
Listed ==
  /\ ToolDone /\ tool = "folder_file_indexing" /\ HasStringPath
  /\ ~ret.raised /\ ret.result.success

AnalyzeDone == pc = "analyze" /\ ret # Pending

\* the extensions of the type map, in any case of the letters of the model
KnownExtension(filePath) ==
  toLowerCase(extname(filePath)) \in
    { <<".", "j", "s">>, <<".", "t", "s">>, <<".", "p", "y">>,
      <<".", "j", "a", "v", "a">>, <<".", "j", "s", "o", "n">>,
      <<".", "x", "m", "l">>, <<".", "c", "s", "v">>, <<".", "l", "o", "g">>,
      <<".", "t", "x", "t">>, <<".", "y", "m", "l">>,
      <<".", "y", "a", "m", "l">>, <<".", "c", "o", "n", "f", "i", "g">>,
      <<".", "p", "r", "o", "p", "e", "r", "t", "i", "e", "s">>,
      <<".", "i", "n", "i">> }

\* C30: analyzeFile hands back the path it was given, unchanged, and a file
\* type that depends on the extension of the path alone; for a path whose
\* extension is not in the type map the type is 'unknown' and the patterns,
\* the data fields and the imports are empty, whatever the content is.
C30_UnknownTypeYieldsNothing ==
  AnalyzeDone =>
    /\ ~ret.raised
    /\ ret.result.filePath = params.filePath
    /\ ret.result.content = params.content
    /\ \A other \in AnalyzePaths :
         extname(other) = extname(params.filePath) =>
           \A text \in SeqsUpTo(ContentLines, 1) :
             analyzeFile(other, text).fileType = ret.result.fileType
    /\ ret.result.fileType = "unknown" <=> ~KnownExtension(params.filePath)
    /\ ~KnownExtension(params.filePath) =>
         /\ ret.result.patterns = <<>>
         /\ ret.result.dataFields = <<>>
         /\ ret.result.imports = <<>>

\* a file of unknown type whose content would give patterns, data fields
\* and a logging framework in a JavaScript file
C30_Witness ==
  /\ AnalyzeDone
  /\ params.filePath = <<"u", ".", "x", "y", "z">>
  /\ params.content = <<LineFunction, LineConsole>>
  /\ analyzeFile(<<"a", ".", "j", "s">>, params.content).patterns # <<>>
  /\ ret.result.logFormats # <<>>
  /\ ret.result.patterns = <<>>

====
